---- MODULE Spec2Model ----
(***************************************************************************)
(* A model of libplacebo's shader dispatcher (src/dispatch.c): the shader  *)
(* pool, the pass cache with its signature lookup, the compilation of a    *)
(* pass on a cache miss (variable placement into push constants, uniform   *)
(* buffer or global uniforms) and the dispatch entry points.               *)
(*                                                                         *)
(* Pointers are sequences of length 0 (NULL) or 1 (the object pointed to). *)
(* A blend parameter block is the tuple <<src_rgb, dst_rgb, src_alpha,     *)
(* dst_alpha>>; a NULL blend pointer is the empty tuple.                   *)
(***************************************************************************)
EXTENDS Integers, Sequences, FiniteSets, TLC

VARIABLES gpu,            \* dp->gpu: the device description (glsl, limits, caps)
          shaders,        \* dp->shaders: the pool of idle shaders (sequence of ids)
          handles,        \* shader handles currently held by callers
          num_alloc,      \* number of shaders pl_shader_alloc has created
          passes,         \* dp->passes: the pass cache
          current_ident,  \* dp->current_ident (uint8_t)
          current_index,  \* dp->current_index (uint8_t)
          crashed,        \* the process died on a NULL dereference
          last,           \* observation of the latest dispatch or abort call
          sh_vars,        \* placement study: the declared variables of one shader
          placed,         \* placement study: the pass find_pass built for them
          idents,         \* history: params.id of the unique shaders of this frame
          dp,             \* the caller's struct pl_dispatch * (NULL once destroyed)
          destroyed,      \* what pl_dispatch_destroy destroyed and freed
          upd,            \* update study: one pass's run parameters and caches
          rparams,        \* group and vertex studies: the run parameters of one pass
          color,          \* colorspace study: one call and what it left behind
          call            \* call study: the dispatch call in progress, step by step

\* the variables of the studies of pure computations
pure == <<rparams, color>>

\* the variables only pl_dispatch_destroy and the studies write

rest == <<dp, destroyed, upd, pure, call>>

vars == <<gpu, shaders, handles, num_alloc, passes, current_ident,
          current_index, crashed, last, sh_vars, placed, idents, rest>>

-----------------------------------------------------------------------------
(* Bounds of the model *)

MaxPasses == 2
MaxShaders == 1
MaxIdent == 1
MaxIndex == 1
MaxVars == 3

-----------------------------------------------------------------------------
(* Constants of the program *)

PASS_VAR_NONE == 0
PASS_VAR_GLOBAL == 1
PASS_VAR_UBO == 2
PASS_VAR_PUSHC == 3

PL_SHADER_SIG_NONE == "NONE"
PL_SHADER_SIG_COLOR == "COLOR"

PL_PASS_RASTER == "RASTER"
PL_PASS_COMPUTE == "COMPUTE"

NULL == <<>>

UINT8 == 256

\* sizeof(float), sizeof(int), sizeof(unsigned): every pl_var element is 4 bytes
pl_var_type_size == 4

\* sizeof(float[4])
VEC4_SIZE == 16

\* the GLSL version that allows explicit offsets on uniform-block members
UBO_GLSL_VERSION == 440

-----------------------------------------------------------------------------
(* Variable layouts *)

PL_ALIGN2(x, align) == ((x + align - 1) \div align) * align

\* the layout a variable has in host memory: tightly packed
pl_var_host_layout(offset, var) ==
    LET stride == pl_var_type_size * var.dim_v
    IN  [offset |-> offset, stride |-> stride,
         size |-> stride * var.dim_m * var.dim_a]

\* std430: vec3 aligned like vec4, arrays and matrices tightly packed
pl_std430_layout(offset, var) ==
    LET el_size == pl_var_type_size
        stride0 == el_size * var.dim_v
        align   == IF var.dim_v = 3 THEN stride0 + el_size ELSE stride0
        stride  == IF var.dim_m * var.dim_a > 1 THEN align ELSE stride0
    IN  [offset |-> PL_ALIGN2(offset, align), stride |-> stride,
         size |-> stride * var.dim_m * var.dim_a]

\* std140: like std430, but array and matrix rows are rounded up to a vec4
pl_std140_layout(offset, var) ==
    LET el_size == pl_var_type_size
        stride0 == el_size * var.dim_v
        align0  == IF var.dim_v = 3 THEN stride0 + el_size ELSE stride0
        arr     == var.dim_m * var.dim_a > 1
        align   == IF arr THEN PL_ALIGN2(align0, VEC4_SIZE) ELSE align0
        stride  == IF arr THEN align ELSE stride0
    IN  [offset |-> PL_ALIGN2(offset, align), stride |-> stride,
         size |-> stride * var.dim_m * var.dim_a]

NoLayout == [offset |-> 0, stride |-> 0, size |-> 0]

\* a zero-initialised struct pass_var
ZeroPassVar == [index |-> 0, type |-> PASS_VAR_NONE, layout |-> NoLayout]

-----------------------------------------------------------------------------
(* Variable placement: add_pass_var and the two placement loops of find_pass *)

\* sh_buf_desc_size(&pass->ubo_desc) is kept in st.ubo_size; appending a
\* variable to the uniform block fails when it would exceed max_ubo_size.
sh_buf_desc_append(g, st, sv) ==
    LET lay == pl_std140_layout(st.ubo_size, sv)
    IN  [ok |-> lay.offset + lay.size <= g.max_ubo_size, layout |-> lay]

\* a static variable that is not a scalar or vector is kept for the greedy loop
try_pushc_ignores_greedy(sv, greedy) ==
    (sv.dim_m = 1 /\ sv.dim_a = 1) \/ sv.dynamic

\* bool try_pushc = greedy || (dim_m == 1 && dim_a == 1) || sv->dynamic;
try_pushc(sv, greedy) ==
    greedy \/ (sv.dim_m = 1 /\ sv.dim_a = 1) \/ sv.dynamic

\* the push constant limit is not looked at
pushc_fits_always(g, new_size) == TRUE

\* if (new_size <= gpu->limits.max_pushc_size)
pushc_fits(g, new_size) == new_size <= g.max_pushc_size

\* the negations are lost: only dynamic variables on a device with global
\* input variables try the uniform buffer
try_ubo_inverted(g, sv) == g.input_variables /\ sv.dynamic

\* the uniform buffer is tried for every variable
try_ubo_always(g, sv) == TRUE

\* bool try_ubo = !(gpu->caps & PL_GPU_CAP_INPUT_VARIABLES) || !sv->dynamic;
try_ubo(g, sv) == ~g.input_variables \/ ~sv.dynamic

\* The placement state st is what add_pass_var reads and writes:
\*   vars                 pass->vars
\*   push_constants_size  params->push_constants_size
\*   ubo_size             sh_buf_desc_size(&pass->ubo_desc)
\*   num_variables        params->num_variables
\*   ok                   FALSE once add_pass_var has returned false
add_pass_var(g, st, i, sv, greedy) ==
    LET pv        == st.vars[i]
        use_pushc == try_pushc(sv, greedy) /\ g.vulkan /\ g.max_pushc_size # 0
        pc_layout == pl_std430_layout(st.push_constants_size, sv)
        new_size  == pc_layout.offset + pc_layout.size
        \* pv->layout is overwritten by the attempt even when it does not fit
        st1       == IF use_pushc
                     THEN [st EXCEPT !.vars[i].layout = pc_layout]
                     ELSE st
        use_ubo   == try_ubo(g, sv) /\ g.version >= UBO_GLSL_VERSION
                     /\ g.max_ubo_size # 0
        app       == sh_buf_desc_append(g, st1, sv)
    IN  IF pv.type # PASS_VAR_NONE THEN st
        ELSE IF use_pushc /\ pushc_fits(g, new_size)
        THEN [st1 EXCEPT !.push_constants_size = new_size,
                         !.vars[i].type = PASS_VAR_PUSHC]
        ELSE IF ~greedy THEN st1
        ELSE IF use_ubo /\ app.ok
        THEN [st1 EXCEPT !.vars[i].type = PASS_VAR_UBO,
                         !.vars[i].layout = app.layout,
                         !.ubo_size = app.layout.offset + app.layout.size]
        ELSE IF g.input_variables
        THEN [st1 EXCEPT !.vars[i].type = PASS_VAR_GLOBAL,
                         !.vars[i].index = st1.num_variables,
                         !.vars[i].layout = pl_var_host_layout(0, sv),
                         !.num_variables = st1.num_variables + 1]
        ELSE [st1 EXCEPT !.ok = FALSE]

RECURSIVE place_loop(_, _, _, _, _, _)
\* for (i = ...; i < n; i++) if (!add_pass_var(...)) goto error;
place_loop(g, st, svs, i, n, greedy) ==
    IF i > n \/ ~st.ok THEN st
    ELSE place_loop(g, add_pass_var(g, st, i, svs[i], greedy), svs, i + 1, n, greedy)

\* pass->vars = talloc_zero_array(...) and the zeroed params
place_init(svs) ==
    [vars |-> [i \in 1..Len(svs) |-> ZeroPassVar],
     push_constants_size |-> 0, ubo_size |-> 0,
     num_variables |-> 0, ok |-> TRUE]

\* the first loop, and k iterations of the second (greedy) loop
place_prefix(g, svs, k) ==
    place_loop(g, place_loop(g, place_init(svs), svs, 1, Len(svs), FALSE),
               svs, 1, k, TRUE)

place_vars(g, svs) == place_prefix(g, svs, Len(svs))

-----------------------------------------------------------------------------
(* Compilation of a pass on a cache miss: find_pass after the lookup *)

\* find_pass from the creation of the UBO to the error label, for the
\* placement state st the two loops have left.
build_pass(st, sh, target_format, blend, buf_ok, pass_ok) ==
    LET type      == IF sh.is_compute THEN PL_PASS_COMPUTE ELSE PL_PASS_RASTER
        need_ubo  == st.ok /\ st.ubo_size # 0
        generated == st.ok /\ (st.ubo_size # 0 => buf_ok)
    IN  [pass |-> [signature |-> sh.signature,
                   pass |-> IF generated /\ pass_ok
                            THEN <<[type |-> type,
                                    target_format |-> IF type = PL_PASS_RASTER
                                                      THEN target_format ELSE "NULL",
                                    blend_params |-> blend,
                                    push_constants_size |->
                                        PL_ALIGN2(st.push_constants_size, 4),
                                    num_variables |-> st.num_variables]>>
                            ELSE NULL,
                   failed |-> ~(generated /\ pass_ok),
                   vars |-> st.vars,
                   ubo |-> IF need_ubo /\ buf_ok
                           THEN <<[size |-> st.ubo_size]>> ELSE NULL,
                   \* history: the target format and blend of the miss
                   requested |-> [format |-> target_format, blend |-> blend]],
         place_failed |-> ~st.ok,
         buf_create |-> need_ubo,
         pass_create |-> generated,
         \* history: params->push_constants_size as handed to pl_pass_create
         create_pushc |-> IF generated
                          THEN <<PL_ALIGN2(st.push_constants_size, 4)>> ELSE NULL]

\* the placement loops' "goto error" is missing: a variable that found no
\* place is reported, and the uniform buffer and the pass are created anyway
new_pass_no_goto(g, sh, target_format, blend, buf_ok, pass_ok) ==
    [build_pass([place_vars(g, sh.variables) EXCEPT !.ok = TRUE],
                sh, target_format, blend, buf_ok, pass_ok)
        EXCEPT !.place_failed = ~place_vars(g, sh.variables).ok]

\* sh: the shader ([signature, is_compute, variables]); target_format and
\* blend: what the caller dispatches against; buf_ok, pass_ok: whether the
\* device's pl_buf_create and pl_pass_create succeed when they are called.
\* Returns the struct pass appended to the cache and what was called.
new_pass(g, sh, target_format, blend, buf_ok, pass_ok) ==
    build_pass(place_vars(g, sh.variables), sh, target_format, blend, buf_ok, pass_ok)

-----------------------------------------------------------------------------
(* Shaders as the callers hand them to the dispatcher *)

ScalarDyn == [dim_v |-> 1, dim_m |-> 1, dim_a |-> 1, dynamic |-> TRUE]
ScalarSta == [dim_v |-> 1, dim_m |-> 1, dim_a |-> 1, dynamic |-> FALSE]
Vec2Dyn   == [dim_v |-> 2, dim_m |-> 1, dim_a |-> 1, dynamic |-> TRUE]
Vec2Sta   == [dim_v |-> 2, dim_m |-> 1, dim_a |-> 1, dynamic |-> FALSE]
Vec3Sta   == [dim_v |-> 3, dim_m |-> 1, dim_a |-> 1, dynamic |-> FALSE]
Mat4Sta   == [dim_v |-> 4, dim_m |-> 4, dim_a |-> 1, dynamic |-> FALSE]
Mat4Dyn   == [dim_v |-> 4, dim_m |-> 4, dim_a |-> 1, dynamic |-> TRUE]

\* What the shader fragments have accumulated in sh->res: the text (named by
\* the key), whether a compute shader was requested, the declared variables
\* and the number of vertex attributes.
Bodies ==
    [R1 |-> [is_compute |-> FALSE, variables |-> <<ScalarDyn, Mat4Sta>>,
             num_vertex_attribs |-> 0],
     R2 |-> [is_compute |-> FALSE, variables |-> <<Vec3Sta>>,
             num_vertex_attribs |-> 1],
     K1 |-> [is_compute |-> TRUE, variables |-> <<ScalarSta>>,
             num_vertex_attribs |-> 0],
     K2 |-> [is_compute |-> TRUE, variables |-> <<>>,
             num_vertex_attribs |-> 1]]

pl_shader_is_compute(sh) == Bodies[sh.body].is_compute

\* pl_shader_output_size: true iff the shader has a fixed output size
pl_shader_output_size(sh) == sh.output_size[1] # 0 /\ sh.output_size[2] # 0

\* The shader as find_pass sees it in pl_dispatch_compute: nothing is added.
plain_shader(sh) ==
    [signature   |-> <<sh.body, "plain", NULL>>,
     is_compute  |-> Bodies[sh.body].is_compute,
     variables   |-> Bodies[sh.body].variables]

\* pl_dispatch_finish on a raster shader adds the position attribute.
position_shader(sh) ==
    [signature   |-> <<sh.body, "position", NULL>>,
     is_compute  |-> FALSE,
     variables   |-> Bodies[sh.body].variables]

RECURSIVE va_points(_)
\* four corner variables (p0..p3) for each vertex attribute
va_points(n) ==
    IF n = 0 THEN <<>>
    ELSE va_points(n - 1) \o <<Vec2Sta, Vec2Sta, Vec2Sta, Vec2Sta>>

\* translate_compute_shader: adds out_scale, the corner variables of every
\* vertex attribute and base, and text that depends on the blend parameters.
translate_compute_shader(sh, blend) ==
    [signature   |-> <<sh.body, "image", blend>>,
     is_compute  |-> TRUE,
     variables   |-> Bodies[sh.body].variables \o <<Vec2Dyn>>
                     \o va_points(Bodies[sh.body].num_vertex_attribs)
                     \o <<Vec2Dyn>>]

\* pl_shader_signature: a hash of the generated text, taken to be free of
\* collisions; the text is a function of the fields collected in signature.
pl_shader_signature(fsh) == fsh.signature

-----------------------------------------------------------------------------
(* The pass cache lookup: the loop at the head of find_pass *)

\* the blend parameters are compared as pointers: two callers' structures
\* are never the same object
blend_equal_by_pointer(a, b) == a = NULL /\ b = NULL

\* if (!a && !b) return true; if (!a || !b) return false; field by field
blend_equal(a, b) ==
    IF a = NULL /\ b = NULL THEN TRUE
    ELSE IF a = NULL \/ b = NULL THEN FALSE
    ELSE a[1] = b[1] /\ a[2] = b[2] /\ a[3] = b[3] /\ a[4] = b[4]

CRASH == 0 - 1

RECURSIVE lookup_pass(_, _, _, _, _)
\* Returns the index of the pass to reuse, 0 when no pass matches, or CRASH:
\* a raster lookup reads p->pass->params of every pass with the signature,
\* and p->pass is NULL in a pass whose compilation failed.
lookup_pass(ps, i, fsh, target_format, blend) ==
    IF i > Len(ps) THEN 0
    ELSE IF ps[i].signature # pl_shader_signature(fsh)
    THEN lookup_pass(ps, i + 1, fsh, target_format, blend)
    ELSE IF fsh.is_compute THEN i
    ELSE IF ps[i].pass = NULL THEN CRASH
    ELSE IF target_format = ps[i].pass[1].target_format
            /\ blend_equal(ps[i].pass[1].blend_params, blend)
    THEN i
    ELSE lookup_pass(ps, i + 1, fsh, target_format, blend)

-----------------------------------------------------------------------------
(* Devices and calls the model draws from *)

Gpu(vk, ver, pushc, ubo, inp) ==
    [vulkan |-> vk, version |-> ver, max_pushc_size |-> pushc,
     max_ubo_size |-> ubo, input_variables |-> inp]

\* a Vulkan device with few push constants, an OpenGL 3.3 device, and a
\* device that offers nothing but four bytes of push constants
Devices == {Gpu(TRUE, 450, 4, 256, FALSE),
            Gpu(FALSE, 330, 0, 0, TRUE),
            Gpu(TRUE, 330, 4, 0, FALSE)}

AllDevices == {Gpu(vk, ver, pushc, ubo, inp) :
                  vk \in BOOLEAN, ver \in {330, 450}, pushc \in {0, 4, 26, 80},
                  ubo \in {0, 64, 256}, inp \in BOOLEAN}

VarKinds == {ScalarDyn, ScalarSta, Vec2Dyn, Vec3Sta, Mat4Sta, Mat4Dyn}

RECURSIVE SeqsUpTo(_, _)
SeqsUpTo(S, n) ==
    IF n = 0 THEN {<<>>}
    ELSE LET shorter == SeqsUpTo(S, n - 1)
         IN  shorter \cup {Append(q, x) : q \in {r \in shorter : Len(r) = n - 1}, x \in S}

Formats == {"rgba8", "r16"}

Blends == {NULL,
           <<"SRC_ALPHA", "ONE_MINUS_SRC_ALPHA", "ONE", "ZERO">>,
           <<"SRC_ALPHA", "ONE_MINUS_SRC_ALPHA", "ONE", "ONE">>}

Tex(fmt, dims, rend, stor) ==
    [format |-> fmt, dims |-> dims, renderable |-> rend, storable |-> stor]

Sh(body, failed, mutable, input, output, size) ==
    [body |-> body, failed |-> failed, mutable |-> mutable, input |-> input,
     output |-> output, output_size |-> size]

GoodSh(body, output) ==
    Sh(body, FALSE, TRUE, PL_SHADER_SIG_NONE, output, <<0, 0>>)

FaultySh(body, output) ==
    {Sh(body, TRUE, TRUE, PL_SHADER_SIG_NONE, output, <<0, 0>>),
     Sh(body, FALSE, FALSE, PL_SHADER_SIG_NONE, output, <<0, 0>>),
     Sh(body, FALSE, TRUE, PL_SHADER_SIG_COLOR, output, <<0, 0>>),
     Sh(body, FALSE, TRUE, PL_SHADER_SIG_NONE,
        IF output = PL_SHADER_SIG_COLOR THEN PL_SHADER_SIG_NONE
        ELSE PL_SHADER_SIG_COLOR, <<0, 0>>)}

FinishArgs(sh, target, rc, blend) ==
    [sh |-> sh, target |-> target, rc |-> rc, blend |-> blend]

\* The calls of pl_dispatch_finish; rc is <<|width|, |height|>> of the
\* rectangle.  Calls that pass the checks, with and without a fixed output
\* size, and one call for each check that can fail.
FinishCalls ==
    {FinishArgs(GoodSh(b, PL_SHADER_SIG_COLOR), Tex(f, 2, TRUE, TRUE), <<2, 2>>, bl) :
        b \in {"R1", "K1"}, f \in Formats, bl \in Blends}
    \cup
    {FinishArgs(GoodSh("R2", PL_SHADER_SIG_COLOR), Tex("rgba8", 2, TRUE, FALSE),
                <<2, 2>>, NULL)}
    \cup
    {FinishArgs(Sh(b, FALSE, TRUE, PL_SHADER_SIG_NONE, PL_SHADER_SIG_COLOR, <<2, 2>>),
                Tex("rgba8", 2, TRUE, TRUE), rc, NULL) :
        b \in {"R1", "K1"}, rc \in {<<2, 2>>, <<4, 2>>}}
    \cup
    {FinishArgs(sh, Tex("rgba8", 2, TRUE, TRUE), <<2, 2>>, NULL) :
        sh \in FaultySh("R1", PL_SHADER_SIG_COLOR)}
    \cup
    {FinishArgs(GoodSh("R1", PL_SHADER_SIG_COLOR), t, <<2, 2>>, NULL) :
        t \in {Tex("rgba8", 3, TRUE, TRUE), Tex("rgba8", 2, FALSE, TRUE)}}
    \cup
    {FinishArgs(GoodSh("K1", PL_SHADER_SIG_COLOR), t, <<2, 2>>, NULL) :
        t \in {Tex("rgba8", 2, TRUE, FALSE), Tex("rgba8", 2, FALSE, TRUE)}}

\* the calls of pl_dispatch_compute
ComputeCalls ==
    {[sh |-> sh] :
        sh \in {GoodSh("K1", PL_SHADER_SIG_NONE), GoodSh("R1", PL_SHADER_SIG_NONE),
                GoodSh("K2", PL_SHADER_SIG_NONE)}
               \cup FaultySh("K1", PL_SHADER_SIG_NONE)}

-----------------------------------------------------------------------------
(* The state after pl_dispatch_create *)

NoCall == [op |-> "none", sh |-> 0, returned |-> TRUE, ret |-> FALSE,
           args |-> NULL, idx |-> 0, created |-> FALSE, buf_create |-> FALSE,
           pass_create |-> FALSE, ran |-> FALSE, place_failed |-> FALSE]

InitDispatch ==
    /\ shaders = <<>>
    /\ handles = {}
    /\ num_alloc = 0
    /\ passes = <<>>
    /\ current_ident = 0
    /\ current_index = 0
    /\ crashed = FALSE
    /\ last = NoCall
    /\ idents = <<>>
    /\ dp = <<"dp">>
    /\ destroyed = NULL

Init ==
    /\ gpu \in Devices
    /\ InitDispatch
    /\ call = NULL
    /\ sh_vars = <<>>
    /\ placed = NULL
    /\ upd = NULL
    /\ rparams = NULL
    /\ color = NULL

-----------------------------------------------------------------------------
(* pl_dispatch_begin_ex, pl_dispatch_begin, pl_dispatch_reset_frame *)

\* .id = unique ? dp->current_ident++ : 0; the shader comes from the pool
\* or from pl_shader_alloc
pl_dispatch_begin_ex(unique) ==
    /\ ~crashed
    /\ current_ident' = IF unique THEN (current_ident + 1) % UINT8 ELSE current_ident
    /\ idents' = IF unique THEN Append(idents, current_ident) ELSE idents
    /\ IF shaders # <<>>
       THEN \* TARRAY_POP takes the last element of the pool
            /\ shaders' = SubSeq(shaders, 1, Len(shaders) - 1)
            /\ handles' = handles \cup {shaders[Len(shaders)]}
            /\ num_alloc' = num_alloc
       ELSE /\ shaders' = shaders
            /\ handles' = handles \cup {num_alloc + 1}
            /\ num_alloc' = num_alloc + 1
    /\ UNCHANGED <<gpu, passes, current_index, crashed, last, sh_vars, placed, rest>>

pl_dispatch_begin == pl_dispatch_begin_ex(FALSE)

pl_dispatch_reset_frame ==
    /\ ~crashed
    /\ current_ident' = 0
    /\ idents' = <<>>
    /\ current_index' = (current_index + 1) % UINT8
    /\ UNCHANGED <<gpu, shaders, handles, num_alloc, passes, crashed, last,
                   sh_vars, placed, rest>>

-----------------------------------------------------------------------------
(* pl_dispatch_abort *)

\* the shader goes back to the pool and the caller keeps the handle
reclaim_keeps_handle(h) ==
    IF h = 0
    THEN UNCHANGED <<shaders, handles>>
    ELSE /\ shaders' = Append(shaders, h)
         /\ handles' = handles

\* the body of pl_dispatch_abort for a handle h; 0 is the NULL handle
reclaim(h) ==
    IF h = 0
    THEN UNCHANGED <<shaders, handles>>
    ELSE /\ shaders' = Append(shaders, h)
         /\ handles' = handles \ {h}

pl_dispatch_abort(h) ==
    /\ ~crashed
    /\ reclaim(h)
    /\ last' = [NoCall EXCEPT !.op = "abort", !.sh = h]
    /\ UNCHANGED <<gpu, num_alloc, passes, current_ident, current_index, crashed,
                   sh_vars, placed, idents, rest>>

-----------------------------------------------------------------------------
(* pl_dispatch_finish and pl_dispatch_compute *)

\* the target is not asked to be renderable
finish_checks_no_renderable(a) ==
    /\ ~a.sh.failed
    /\ a.sh.mutable
    /\ ~(a.sh.input # PL_SHADER_SIG_NONE \/ a.sh.output # PL_SHADER_SIG_COLOR)
    /\ ~(a.target.dims # 2)
    /\ ~(pl_shader_is_compute(a.sh) /\ ~a.target.storable)
    /\ ~(pl_shader_output_size(a.sh) /\ a.sh.output_size # a.rc)

\* the storable check of a compute shader's target is missing
finish_checks_no_storable(a) ==
    /\ ~a.sh.failed
    /\ a.sh.mutable
    /\ ~(a.sh.input # PL_SHADER_SIG_NONE \/ a.sh.output # PL_SHADER_SIG_COLOR)
    /\ ~(a.target.dims # 2 \/ ~a.target.renderable)
    /\ ~(pl_shader_output_size(a.sh) /\ a.sh.output_size # a.rc)

\* the checks at the head of pl_dispatch_finish, in the order of the code
finish_checks(a) ==
    /\ ~a.sh.failed
    /\ a.sh.mutable
    /\ ~(a.sh.input # PL_SHADER_SIG_NONE \/ a.sh.output # PL_SHADER_SIG_COLOR)
    /\ ~(a.target.dims # 2 \/ ~a.target.renderable)
    /\ ~(pl_shader_is_compute(a.sh) /\ ~a.target.storable)
    /\ ~(pl_shader_output_size(a.sh) /\ a.sh.output_size # a.rc)

\* the checks at the head of pl_dispatch_compute
compute_checks(a) ==
    /\ ~a.sh.failed
    /\ a.sh.mutable
    /\ ~(a.sh.input # PL_SHADER_SIG_NONE \/ a.sh.output # PL_SHADER_SIG_NONE)
    /\ pl_shader_is_compute(a.sh)
    /\ Bodies[a.sh.body].num_vertex_attribs = 0

\* the error path: nothing but the reset of dp->tmp and pl_dispatch_abort
dispatch_rejected(op, h, a) ==
    /\ reclaim(h)
    /\ last' = [NoCall EXCEPT !.op = op, !.sh = h, !.args = <<a>>]
    /\ UNCHANGED <<passes, crashed>>

\* the observation of a dispatch call that got as far as find_pass
dispatched(op, h, a, idx, created, np, failed) ==
    [NoCall EXCEPT !.op = op, !.sh = h, !.args = <<a>>, !.idx = idx,
                   !.created = created,
                   !.buf_create = np.buf_create,
                   !.pass_create = np.pass_create,
                   !.place_failed = np.place_failed,
                   !.ran = ~failed, !.ret = ~failed]

\* a pass found in the cache: nothing is compiled
NoCompile == [buf_create |-> FALSE, pass_create |-> FALSE, place_failed |-> FALSE]

\* the cache miss: the new pass np.pass is appended to the cache
dispatch_miss(op, h, a, np) ==
    /\ passes' = Append(passes, np.pass)
    /\ last' = dispatched(op, h, a, Len(passes) + 1, TRUE, np, np.pass.failed)

\* what follows the lookup, which returned idx
dispatch_found(op, h, a, fsh, target_format, blend, idx) ==
    \/ /\ idx = CRASH
       /\ crashed' = TRUE
       /\ last' = [NoCall EXCEPT !.op = op, !.sh = h, !.args = <<a>>,
                                 !.returned = FALSE]
       /\ UNCHANGED <<shaders, handles, passes>>
    \/ /\ idx > 0
       /\ reclaim(h)
       /\ last' = dispatched(op, h, a, idx, FALSE, NoCompile, passes[idx].failed)
       /\ UNCHANGED <<passes, crashed>>
    \/ /\ idx = 0
       /\ Len(passes) < MaxPasses
       /\ \E buf_ok \in BOOLEAN, pass_ok \in BOOLEAN :
            dispatch_miss(op, h, a,
                          new_pass(gpu, fsh, target_format, blend, buf_ok, pass_ok))
       /\ reclaim(h)
       /\ UNCHANGED crashed

\* find_pass and what follows it in both entry points: the silent return on
\* a failed pass, or the updates, pl_pass_run and ret = true; then the error
\* label with pl_dispatch_abort.
dispatch_pass(op, h, a, fsh, target_format, blend) ==
    dispatch_found(op, h, a, fsh, target_format, blend,
                   lookup_pass(passes, 1, fsh, target_format, blend))

pl_dispatch_finish(h, a) ==
    /\ ~crashed
    /\ h \in handles
    /\ IF ~finish_checks(a)
       THEN dispatch_rejected("finish", h, a)
       ELSE dispatch_pass("finish", h, a,
                          IF pl_shader_is_compute(a.sh)
                          THEN translate_compute_shader(a.sh, a.blend)
                          ELSE position_shader(a.sh),
                          a.target.format, a.blend)
    /\ UNCHANGED <<gpu, num_alloc, current_ident, current_index, sh_vars, placed,
                   idents, rest>>

pl_dispatch_compute(h, a) ==
    /\ ~crashed
    /\ h \in handles
    /\ IF ~compute_checks(a)
       THEN dispatch_rejected("compute", h, a)
       ELSE dispatch_pass("compute", h, a, plain_shader(a.sh), "NULL", NULL)
    /\ UNCHANGED <<gpu, num_alloc, current_ident, current_index, sh_vars, placed,
                   idents, rest>>

-----------------------------------------------------------------------------
(* The dispatcher *)

\* pl_shader_alloc is called at most MaxShaders times
MayBegin == shaders = <<>> => num_alloc < MaxShaders

Begin == MayBegin /\ pl_dispatch_begin

\* at most MaxIdent unique shaders in a frame
BeginUnique == MayBegin /\ current_ident < MaxIdent /\ pl_dispatch_begin_ex(TRUE)

\* at most MaxIndex frames
ResetFrame == current_index < MaxIndex /\ pl_dispatch_reset_frame

Abort == \E h \in handles \cup {0} : pl_dispatch_abort(h)

Finish == \E h \in handles, a \in FinishCalls : pl_dispatch_finish(h, a)

Compute == \E h \in handles, a \in ComputeCalls : pl_dispatch_compute(h, a)

Next ==
    \/ Begin
    \/ BeginUnique
    \/ ResetFrame
    \/ Abort
    \/ Finish
    \/ Compute

Spec == Init /\ [][Next]_vars

-----------------------------------------------------------------------------
(* The placement study: find_pass compiling one shader on one device *)

InitPlace ==
    /\ gpu \in AllDevices
    /\ InitDispatch
    /\ call = NULL
    /\ sh_vars \in SeqsUpTo(VarKinds, MaxVars)
    /\ placed = NULL
    /\ upd = NULL
    /\ rparams = NULL
    /\ color = NULL

Compile ==
    /\ placed = NULL
    /\ \E is_compute \in BOOLEAN, buf_ok \in BOOLEAN, pass_ok \in BOOLEAN :
          placed' = <<new_pass(gpu,
                               [signature |-> <<"S", "plain", NULL>>,
                                is_compute |-> is_compute,
                                variables |-> sh_vars],
                               "rgba8", NULL, buf_ok, pass_ok)>>
    /\ UNCHANGED <<gpu, shaders, handles, num_alloc, passes, current_ident,
                   current_index, crashed, last, sh_vars, idents, rest>>

NextPlace == Compile

SpecPlace == InitPlace /\ [][NextPlace]_vars

-----------------------------------------------------------------------------
(* The update study: the Bind-Update of successive dispatches that use one
   cached pass (update_pass_var and the loop that calls it) *)

MaxUpdVars == 2

\* the host value of a variable, compared and copied as a whole by
\* memcmp / memcpy over host_layout.size bytes
Values == {0, 1}

\* the update study's state: pv->cached_data of every variable and
\* rparams->var_updates; as history, the pl_buf_write and memcpy_layout
\* calls of the latest dispatch, its data, and whether abort() was called
NoUpdates(n) ==
    [cached_data  |-> [i \in 1..n |-> NULL],
     var_updates  |-> <<>>,
     buf_writes   |-> <<>>,
     pushc_copies |-> <<>>,
     data         |-> [i \in 1..n |-> 0],
     aborted      |-> FALSE,
     \* what the device holds: the value of the last var-update of every
     \* uniform index, and the bytes of the uniform buffer and of
     \* rparams->push_constants, each with the variable and value written
     mem          |-> [global |-> {}, ubo |-> {}, pushc |-> {}]]

\* the bytes of the rows of a variable with the device layout lay: the loops
\* of update_pass_var and memcpy_layout copy host stride bytes per row
row_bytes(lay, sv) ==
    LET host == pl_var_host_layout(0, sv)
    IN  {lay.offset + k * lay.stride + b :
            k \in 0..((host.size + host.stride - 1) \div host.stride - 1),
            b \in 0..(host.stride - 1)}

\* the addresses addrs of a memory take the value v
store(mem, addrs, v) ==
    {p \in mem : p[1] \notin addrs} \cup {<<a, v>> : a \in addrs}

\* anything recorded for the variable lets the update be skipped
cache_hit_any(cached, d) == cached # NULL

\* the cache never lets an update be skipped
cache_hit_never(cached, d) == FALSE

\* if (pv->cached_data && !memcmp(sv->data, pv->cached_data, host_layout.size))
cache_hit(cached, d) == cached # NULL /\ cached[1] = d

RECURSIVE ubo_writes(_, _, _, _, _)
\* while (src < end) { pl_buf_write(..., dst, src, host_layout.stride); ... }
ubo_writes(i, d, src, dst, pv) ==
    IF src >= pl_var_host_layout(0, sh_vars[i]).size THEN <<>>
    ELSE <<[var |-> i, offset |-> dst, data |-> d, src |-> src,
            size |-> pl_var_host_layout(0, sh_vars[i]).stride]>>
         \o ubo_writes(i, d, src + pl_var_host_layout(0, sh_vars[i]).stride,
                       dst + pv.layout.stride, pv)

\* st: the update state; i: the variable; d: sv->data; pv: pass->vars[i]
update_pass_var(st, i, d, pv) ==
    IF cache_hit(st.cached_data[i], d) THEN st
    ELSE IF pv.type = PASS_VAR_GLOBAL
    THEN [st EXCEPT !.cached_data[i] = <<d>>,
                    !.var_updates = Append(@, [index |-> pv.index, data |-> d]),
                    !.mem.global = store(@, {pv.index}, <<i, d>>)]
    ELSE IF pv.type = PASS_VAR_UBO
    THEN [st EXCEPT !.cached_data[i] = <<d>>,
                    !.buf_writes = @ \o ubo_writes(i, d, 0, pv.layout.offset, pv),
                    !.mem.ubo = store(@, row_bytes(pv.layout, sh_vars[i]), <<i, d>>)]
    ELSE IF pv.type = PASS_VAR_PUSHC
    THEN [st EXCEPT !.cached_data[i] = <<d>>,
                    !.pushc_copies = Append(@, [var |-> i, layout |-> pv.layout,
                                                data |-> d]),
                    !.mem.pushc = store(@, row_bytes(pv.layout, sh_vars[i]), <<i, d>>)]
    ELSE [st EXCEPT !.cached_data[i] = <<d>>, !.aborted = TRUE]

RECURSIVE update_loop(_, _, _, _)
\* for (i = 0; i < res->num_variables; i++) update_pass_var(...)
update_loop(st, i, data, pvs) ==
    IF i > Len(pvs) \/ st.aborted THEN st
    ELSE update_loop(update_pass_var(st, i, data[i], pvs[i]), i + 1, data, pvs)

\* rparams->num_var_updates = 0, then the loop
bind_update(st, data, pvs) ==
    update_loop([st EXCEPT !.var_updates = <<>>, !.buf_writes = <<>>,
                           !.pushc_copies = <<>>, !.data = data],
                1, data, pvs)

UpdDevices ==
    {Gpu(TRUE, 450, 4, 256, TRUE), Gpu(FALSE, 330, 0, 0, TRUE),
     Gpu(TRUE, 450, 80, 256, FALSE)}

\* a pass that compiled is in the cache; nothing was dispatched with it yet
InitUpdate ==
    /\ gpu \in UpdDevices
    /\ InitDispatch
    /\ call = NULL
    /\ sh_vars \in SeqsUpTo(VarKinds, MaxUpdVars)
    /\ placed = <<new_pass(gpu, [signature |-> <<"S", "plain", NULL>>,
                                 is_compute |-> FALSE, variables |-> sh_vars],
                           "rgba8", NULL, TRUE, TRUE)>>
    /\ ~placed[1].pass.failed
    /\ upd = <<NoUpdates(Len(sh_vars))>>
    /\ rparams = NULL
    /\ color = NULL

\* a dispatch that found the pass: the variable updates before pl_pass_run
BindUpdate ==
    /\ ~upd[1].aborted
    /\ \E data \in [1..Len(sh_vars) -> Values] :
          upd' = <<bind_update(upd[1], data, placed[1].pass.vars)>>
    /\ UNCHANGED <<gpu, shaders, handles, num_alloc, passes, current_ident,
                   current_index, crashed, last, sh_vars, placed, idents, dp,
                   destroyed, pure, call>>

NextUpdate == BindUpdate

SpecUpdate == InitUpdate /\ [][NextUpdate]_vars

-----------------------------------------------------------------------------
(* The lifetime of a dispatcher: several shaders in flight, and
   pl_dispatch_destroy *)

MaxLifeShaders == 2

\* the passes are freed and nothing of them is handed to the device
pass_destroy_nothing(pass) == [ubo |-> NULL, pass |-> NULL]

\* pl_buf_destroy and pl_pass_destroy of pass_destroy: the objects handed to
\* the device for destruction (a NULL object is handed over as it is)
pass_destroy(pass) == [ubo |-> pass.ubo, pass |-> pass.pass]

\* pl_dispatch_destroy(&dp): every cached pass is destroyed, every pooled
\* shader freed, the dispatcher freed and the caller's pointer cleared
pl_dispatch_destroy ==
    /\ ~crashed
    /\ IF dp = NULL
       THEN UNCHANGED <<shaders, passes, dp, destroyed>>
       ELSE /\ destroyed' = <<[passes  |-> [i \in 1..Len(passes) |->
                                               pass_destroy(passes[i])],
                               shaders |-> shaders]>>
            /\ passes' = <<>>
            /\ shaders' = <<>>
            /\ dp' = NULL
    /\ UNCHANGED <<gpu, handles, num_alloc, current_ident, current_index,
                   crashed, last, sh_vars, placed, idents, upd, pure,
                   call>>

LifeFinishCalls ==
    {FinishArgs(GoodSh(b, PL_SHADER_SIG_COLOR), Tex("rgba8", 2, TRUE, TRUE),
                <<2, 2>>, NULL) : b \in {"R1", "K1"}}
    \cup {FinishArgs(sh, Tex("rgba8", 2, TRUE, TRUE), <<2, 2>>, NULL) :
             sh \in FaultySh("R1", PL_SHADER_SIG_COLOR)}

LifeComputeCalls == {[sh |-> GoodSh("K1", PL_SHADER_SIG_NONE)]}

\* the dispatcher is used only while the caller's pointer is live
Live == dp # NULL

LifeMayBegin == shaders = <<>> => num_alloc < MaxLifeShaders

LifeBegin == Live /\ LifeMayBegin /\ pl_dispatch_begin

LifeBeginUnique ==
    Live /\ LifeMayBegin /\ current_ident < MaxIdent /\ pl_dispatch_begin_ex(TRUE)

LifeResetFrame == Live /\ current_index < MaxIndex /\ pl_dispatch_reset_frame

LifeAbort == Live /\ \E h \in handles \cup {0} : pl_dispatch_abort(h)

LifeFinish ==
    Live /\ \E h \in handles, a \in LifeFinishCalls : pl_dispatch_finish(h, a)

LifeCompute ==
    Live /\ \E h \in handles, a \in LifeComputeCalls : pl_dispatch_compute(h, a)

Destroy == pl_dispatch_destroy

NextLife ==
    \/ LifeBegin
    \/ LifeBeginUnique
    \/ LifeResetFrame
    \/ LifeAbort
    \/ LifeFinish
    \/ LifeCompute
    \/ Destroy

SpecLife == Init /\ [][NextLife]_vars

-----------------------------------------------------------------------------
(* The identifiers of one frame: many unique shaders begun, each given back
   before the next *)

\* unique shaders begun in one frame
MaxBegins == 257

IdentBeginUnique ==
    /\ Len(idents) < MaxBegins
    /\ MayBegin
    /\ pl_dispatch_begin_ex(TRUE)

IdentBegin == MayBegin /\ pl_dispatch_begin

IdentAbort == \E h \in handles \cup {0} : pl_dispatch_abort(h)

IdentResetFrame == current_index < MaxIndex /\ pl_dispatch_reset_frame

NextIdent ==
    \/ IdentBeginUnique
    \/ IdentBegin
    \/ IdentAbort
    \/ IdentResetFrame

SpecIdent == Init /\ [][NextIdent]_vars

-----------------------------------------------------------------------------
(* The group study: the dispatch sizes handed to pl_pass_run *)

MaxCoord == 3
MaxBlock == 3
MaxDispatch == 1

Abs(x) == IF x < 0 THEN -x ELSE x

\* the division of C's int: the quotient is truncated towards zero
c_div(a, b) ==
    IF (a < 0) = (b < 0) THEN Abs(a) \div Abs(b) ELSE -(Abs(a) \div Abs(b))

pl_rect_w(rc) == rc.x1 - rc.x0
pl_rect_h(rc) == rc.y1 - rc.y0

\* the number of groups is rounded down
finish_compute_groups_truncated(rc, compute_group_size) ==
    <<c_div(Abs(pl_rect_w(rc)), compute_group_size[1]),
      c_div(Abs(pl_rect_h(rc)), compute_group_size[2]), 1>>

\* pl_dispatch_finish, compute shader: rparams->compute_groups
finish_compute_groups(rc, compute_group_size) ==
    LET width   == Abs(pl_rect_w(rc))
        height  == Abs(pl_rect_h(rc))
        block_w == compute_group_size[1]
        block_h == compute_group_size[2]
        num_x   == c_div(width + block_w - 1, block_w)
        num_y   == c_div(height + block_h - 1, block_h)
    IN  <<num_x, num_y, 1>>

\* pl_dispatch_compute: rparams->compute_groups[i] = dispatch_size[i]
compute_compute_groups(dispatch_size) ==
    [i \in 1..3 |-> dispatch_size[i]]

\* target rectangles, flipped and empty ones included
Rects == [x0 : 0..MaxCoord, y0 : 0..MaxCoord, x1 : 0..MaxCoord, y1 : 0..MaxCoord]

\* the group sizes of a compute shader are positive
GroupSizes == (1..MaxBlock) \X (1..MaxBlock)

DispatchSizes == (0..MaxDispatch) \X (0..MaxDispatch) \X (0..MaxDispatch)

\* the run parameters of a pass that never ran, and the arguments its
\* dispatches are going to have
NoRun(rc, size, dispatch_size) ==
    [op |-> "none", rc |-> rc, compute_group_size |-> size,
     dispatch_size |-> dispatch_size, compute_groups |-> <<0, 0, 0>>]

InitGroups ==
    /\ gpu = Gpu(TRUE, 450, 0, 256, TRUE)
    /\ InitDispatch
    /\ call = NULL
    /\ sh_vars = <<>>
    /\ placed = NULL
    /\ upd = NULL
    /\ \E rc \in Rects, size \in GroupSizes, dispatch_size \in DispatchSizes :
          rparams = <<NoRun(rc, size, dispatch_size)>>
    /\ color = NULL

UnchangedButGroups ==
    UNCHANGED <<gpu, shaders, handles, num_alloc, passes, current_ident,
                current_index, crashed, last, sh_vars, placed, idents, dp,
                destroyed, upd, color, call>>

\* pl_dispatch_finish of a compute shader that found its pass
FinishGroups ==
    /\ rparams' = <<[rparams[1] EXCEPT
                        !.op = "finish",
                        !.compute_groups =
                            finish_compute_groups(rparams[1].rc,
                                rparams[1].compute_group_size)]>>
    /\ UnchangedButGroups

\* pl_dispatch_compute of a shader that found its pass
ComputeGroups ==
    /\ rparams' = <<[rparams[1] EXCEPT
                        !.op = "compute",
                        !.compute_groups =
                            compute_compute_groups(rparams[1].dispatch_size)]>>
    /\ UnchangedButGroups

NextGroups == FinishGroups \/ ComputeGroups

SpecGroups == InitGroups /\ [][NextGroups]_vars

-----------------------------------------------------------------------------
(* The colorspace study: pl_color_repr_normalize and pl_color_repr_decode *)

MaxDepth == 16
MaxShift == 4

\* enum pl_color_system, in the order of its declaration
PL_COLOR_SYSTEM_UNKNOWN     == 0
PL_COLOR_SYSTEM_BT_601      == 1
PL_COLOR_SYSTEM_BT_709      == 2
PL_COLOR_SYSTEM_SMPTE_240M  == 3
PL_COLOR_SYSTEM_BT_2020_NC  == 4
PL_COLOR_SYSTEM_BT_2020_C   == 5
PL_COLOR_SYSTEM_BT_2100_PQ  == 6
PL_COLOR_SYSTEM_BT_2100_HLG == 7
PL_COLOR_SYSTEM_YCGCO       == 8
PL_COLOR_SYSTEM_RGB         == 9
PL_COLOR_SYSTEM_XYZ         == 10
PL_COLOR_SYSTEM_COUNT       == 11

\* enum pl_color_levels
PL_COLOR_LEVELS_UNKNOWN == 0
PL_COLOR_LEVELS_TV      == 1
PL_COLOR_LEVELS_PC      == 2

\* enum pl_alpha_mode
PL_ALPHA_UNKNOWN       == 0
PL_ALPHA_INDEPENDENT   == 1
PL_ALPHA_PREMULTIPLIED == 2

\* PL_DEF(x, d): x unless it is zero
PL_DEF(x, d) == IF x # 0 THEN x ELSE d

\* the float and double values of the study are exact fractions <<n, d>> in
\* lowest terms with d > 0; the value a C float holds is the nearest
\* representable one (1, and every power of two, is held exactly)
RECURSIVE gcd(_, _)
gcd(a, b) == IF b = 0 THEN a ELSE gcd(b, a % b)

Frac(n, d) == <<n \div gcd(n, d), d \div gcd(n, d)>>

frac_mul(p, q) == Frac(p[1] * q[1], p[2] * q[2])

frac_div(p, q) == Frac(p[1] * q[2], p[2] * q[1])

One == <<1, 1>>

\* 1LL << n
shl(n) == 2 ^ n

pl_color_system_is_ycbcr_like(sys) ==
    CASE sys \in {PL_COLOR_SYSTEM_UNKNOWN, PL_COLOR_SYSTEM_RGB,
                  PL_COLOR_SYSTEM_XYZ} -> FALSE
      [] sys \in {PL_COLOR_SYSTEM_BT_601, PL_COLOR_SYSTEM_BT_709,
                  PL_COLOR_SYSTEM_SMPTE_240M, PL_COLOR_SYSTEM_BT_2020_NC,
                  PL_COLOR_SYSTEM_BT_2020_C, PL_COLOR_SYSTEM_BT_2100_PQ,
                  PL_COLOR_SYSTEM_BT_2100_HLG, PL_COLOR_SYSTEM_YCGCO} -> TRUE

\* unknown levels are always guessed to be full range
guess_levels_pc(repr) ==
    IF repr.levels # 0 THEN repr.levels ELSE PL_COLOR_LEVELS_PC

guess_levels(repr) ==
    IF repr.levels # 0
    THEN repr.levels
    ELSE IF pl_color_system_is_ycbcr_like(repr.sys)
         THEN PL_COLOR_LEVELS_TV
         ELSE PL_COLOR_LEVELS_PC

\* the sample depth is left as it was
pl_color_repr_normalize_keeps_sample(repr) ==
    [repr |-> [repr EXCEPT !.bits.bit_shift = 0], ret |-> One]

\* pl_color_repr_normalize(&repr): the repr it leaves and the scale it returns
pl_color_repr_normalize(repr) ==
    LET bits     == repr.bits
        shifted  == IF bits.bit_shift # 0
                    THEN frac_div(One, <<shl(bits.bit_shift), 1>>)
                    ELSE One
        tex_bits == PL_DEF(bits.sample_depth, 8)
        col_bits == PL_DEF(bits.color_depth, 8)
        scale    == IF guess_levels(repr) = PL_COLOR_LEVELS_TV
                    THEN frac_mul(shifted, Frac(shl(tex_bits), shl(col_bits)))
                    ELSE frac_mul(shifted,
                                  Frac(shl(tex_bits) - 1, shl(col_bits) - 1))
    IN  [repr |-> [repr EXCEPT !.bits = [sample_depth |-> bits.color_depth,
                                        color_depth  |-> bits.color_depth,
                                        bit_shift    |-> 0]],
         ret  |-> scale]

\* the levels of the input are kept
pl_color_repr_decode_keeps_levels(repr) ==
    [repr |-> [pl_color_repr_normalize(repr).repr EXCEPT
                  !.sys = PL_COLOR_SYSTEM_RGB],
     ret  |-> pl_color_repr_normalize(repr).ret]

\* pl_color_repr_decode(&repr, params): the repr it leaves; of the transform
\* it returns, `ret' is the factor its matrix was last scaled by
pl_color_repr_decode(repr) ==
    [repr |-> [pl_color_repr_normalize(repr).repr EXCEPT
                  !.sys    = PL_COLOR_SYSTEM_RGB,
                  !.levels = PL_COLOR_LEVELS_PC],
     ret  |-> pl_color_repr_normalize(repr).ret]

\* the color systems the switch of pl_color_repr_decode has a case for
ColorSystems == PL_COLOR_SYSTEM_UNKNOWN .. (PL_COLOR_SYSTEM_COUNT - 1)

ColorLevels ==
    {PL_COLOR_LEVELS_UNKNOWN, PL_COLOR_LEVELS_TV, PL_COLOR_LEVELS_PC}

AlphaModes == {PL_ALPHA_UNKNOWN, PL_ALPHA_INDEPENDENT, PL_ALPHA_PREMULTIPLIED}

BitEncodings ==
    [sample_depth : 0..MaxDepth, color_depth : 0..MaxDepth,
     bit_shift : 0..MaxShift]

Reprs ==
    [sys : ColorSystems, levels : ColorLevels, alpha : AlphaModes,
     bits : BitEncodings]

InitRepr ==
    /\ gpu = Gpu(TRUE, 450, 0, 256, TRUE)
    /\ InitDispatch
    /\ call = NULL
    /\ sh_vars = <<>>
    /\ placed = NULL
    /\ upd = NULL
    /\ rparams = NULL
    /\ \E repr \in Reprs :
          color = <<[op |-> "none", before |-> repr, repr |-> repr,
                     ret |-> One]>>

UnchangedButColor ==
    UNCHANGED <<gpu, shaders, handles, num_alloc, passes, current_ident,
                current_index, crashed, last, sh_vars, placed, idents, dp,
                destroyed, upd, rparams, call>>

Normalize ==
    /\ color' = <<[op     |-> "normalize",
                   before |-> color[1].repr,
                   repr   |-> pl_color_repr_normalize(color[1].repr).repr,
                   ret    |-> pl_color_repr_normalize(color[1].repr).ret]>>
    /\ UnchangedButColor

Decode ==
    /\ color' = <<[op     |-> "decode",
                   before |-> color[1].repr,
                   repr   |-> pl_color_repr_decode(color[1].repr).repr,
                   ret    |-> pl_color_repr_decode(color[1].repr).ret]>>
    /\ UnchangedButColor

NextRepr == Normalize \/ Decode

SpecRepr == InitRepr /\ [][NextRepr]_vars

-----------------------------------------------------------------------------
(* The merge study: pl_color_repr_merge and pl_color_space_merge *)

MaxField == 2

\* the destination's fields are overwritten by every set field of the source
pl_color_repr_merge_overwrites(orig, new) ==
    [sys    |-> PL_DEF(new.sys, orig.sys),
     levels |-> PL_DEF(new.levels, orig.levels),
     alpha  |-> PL_DEF(new.alpha, orig.alpha),
     bits   |-> [sample_depth |-> PL_DEF(new.bits.sample_depth,
                                         orig.bits.sample_depth),
                 color_depth  |-> PL_DEF(new.bits.color_depth,
                                         orig.bits.color_depth),
                 bit_shift    |-> PL_DEF(new.bits.bit_shift,
                                         orig.bits.bit_shift)]]

pl_bit_encoding_merge(orig, new) ==
    [sample_depth |-> PL_DEF(orig.sample_depth, new.sample_depth),
     color_depth  |-> PL_DEF(orig.color_depth, new.color_depth),
     bit_shift    |-> PL_DEF(orig.bit_shift, new.bit_shift)]

\* pl_color_repr_merge(&orig, &new): the value it leaves in *orig
pl_color_repr_merge(orig, new) ==
    [sys    |-> PL_DEF(orig.sys, new.sys),
     levels |-> PL_DEF(orig.levels, new.levels),
     alpha  |-> PL_DEF(orig.alpha, new.alpha),
     bits   |-> pl_bit_encoding_merge(orig.bits, new.bits)]

\* pl_color_space_merge(&orig, &new): the value it leaves in *orig
pl_color_space_merge(orig, new) ==
    [primaries |-> IF orig.primaries = 0 THEN new.primaries ELSE orig.primaries,
     transfer  |-> IF orig.transfer = 0 THEN new.transfer ELSE orig.transfer,
     light     |-> IF orig.light = 0 THEN new.light ELSE orig.light,
     sig_peak  |-> IF orig.sig_peak = 0 THEN new.sig_peak ELSE orig.sig_peak,
     sig_avg   |-> IF orig.sig_avg = 0 THEN new.sig_avg ELSE orig.sig_avg,
     sig_scale |-> IF orig.sig_scale = 0 THEN new.sig_scale ELSE orig.sig_scale]

\* the values of a destination's field, and those of a source's: unset, or
\* set to a value the destination may or may not have
OrigValues == 0..MaxField
NewValues == {0, MaxField}

MergeReprs(V) ==
    [sys : V, levels : V, alpha : V,
     bits : [sample_depth : V, color_depth : V, bit_shift : V]]

MergeSpaces(V) ==
    [primaries : V, transfer : V, light : V, sig_peak : V, sig_avg : V,
     sig_scale : V]

\* orig: the destination before the latest call; dest: the destination
InitMerge ==
    /\ gpu = Gpu(TRUE, 450, 0, 256, TRUE)
    /\ InitDispatch
    /\ call = NULL
    /\ sh_vars = <<>>
    /\ placed = NULL
    /\ upd = NULL
    /\ rparams = NULL
    /\ \/ \E orig \in MergeReprs(OrigValues), new \in MergeReprs(NewValues) :
             color = <<[kind |-> "repr", op |-> "none", orig |-> orig,
                        dest |-> orig, new |-> new]>>
       \/ \E orig \in MergeSpaces(OrigValues), new \in MergeSpaces(NewValues) :
             color = <<[kind |-> "space", op |-> "none", orig |-> orig,
                        dest |-> orig, new |-> new]>>

MergeRepr ==
    /\ color[1].kind = "repr"
    /\ color' = <<[color[1] EXCEPT
                      !.op   = "merge",
                      !.orig = color[1].dest,
                      !.dest = pl_color_repr_merge(color[1].dest,
                                                   color[1].new)]>>
    /\ UnchangedButColor

MergeSpace ==
    /\ color[1].kind = "space"
    /\ color' = <<[color[1] EXCEPT
                      !.op   = "merge",
                      !.orig = color[1].dest,
                      !.dest = pl_color_space_merge(color[1].dest,
                                                    color[1].new)]>>
    /\ UnchangedButColor

NextMerge == MergeRepr \/ MergeSpace

SpecMerge == InitMerge /\ [][NextMerge]_vars

-----------------------------------------------------------------------------
(* The inference study: pl_color_space_infer *)

MaxScalar == 2

\* enum pl_color_primaries, in the order of its declaration
PL_COLOR_PRIM_UNKNOWN    == 0
PL_COLOR_PRIM_BT_601_525 == 1
PL_COLOR_PRIM_BT_601_625 == 2
PL_COLOR_PRIM_BT_709     == 3
PL_COLOR_PRIM_BT_470M    == 4
PL_COLOR_PRIM_BT_2020    == 5
PL_COLOR_PRIM_APPLE      == 6
PL_COLOR_PRIM_ADOBE      == 7
PL_COLOR_PRIM_PRO_PHOTO  == 8
PL_COLOR_PRIM_CIE_1931   == 9
PL_COLOR_PRIM_DCI_P3     == 10
PL_COLOR_PRIM_DISPLAY_P3 == 11
PL_COLOR_PRIM_V_GAMUT    == 12
PL_COLOR_PRIM_S_GAMUT    == 13
PL_COLOR_PRIM_COUNT      == 14

\* enum pl_color_transfer
PL_COLOR_TRC_UNKNOWN   == 0
PL_COLOR_TRC_BT_1886   == 1
PL_COLOR_TRC_SRGB      == 2
PL_COLOR_TRC_LINEAR    == 3
PL_COLOR_TRC_GAMMA18   == 4
PL_COLOR_TRC_GAMMA22   == 5
PL_COLOR_TRC_GAMMA28   == 6
PL_COLOR_TRC_PRO_PHOTO == 7
PL_COLOR_TRC_PQ        == 8
PL_COLOR_TRC_HLG       == 9
PL_COLOR_TRC_V_LOG     == 10
PL_COLOR_TRC_S_LOG1    == 11
PL_COLOR_TRC_S_LOG2    == 12
PL_COLOR_TRC_COUNT     == 13

\* enum pl_color_light
PL_COLOR_LIGHT_UNKNOWN        == 0
PL_COLOR_LIGHT_DISPLAY        == 1
PL_COLOR_LIGHT_SCENE_HLG      == 2
PL_COLOR_LIGHT_SCENE_709_1886 == 3
PL_COLOR_LIGHT_SCENE_1_2      == 4
PL_COLOR_LIGHT_COUNT          == 5

PL_COLOR_REF_WHITE == 100

Zero == <<0, 1>>

pl_color_transfer_nominal_peak(trc) ==
    CASE trc \in {PL_COLOR_TRC_UNKNOWN, PL_COLOR_TRC_BT_1886,
                  PL_COLOR_TRC_SRGB, PL_COLOR_TRC_LINEAR,
                  PL_COLOR_TRC_GAMMA18, PL_COLOR_TRC_GAMMA22,
                  PL_COLOR_TRC_GAMMA28, PL_COLOR_TRC_PRO_PHOTO} -> One
      [] trc = PL_COLOR_TRC_PQ     -> Frac(10000, PL_COLOR_REF_WHITE)
      [] trc = PL_COLOR_TRC_HLG    -> <<12, 1>>
      [] trc = PL_COLOR_TRC_V_LOG  -> Frac(460855, 10000)
      [] trc = PL_COLOR_TRC_S_LOG1 -> Frac(652, 100)
      [] trc = PL_COLOR_TRC_S_LOG2 -> Frac(9212, 1000)

sdr_avg == <<1, 4>>

\* the peak of HLG content is its nominal peak
infer_sig_peak_nominal(transfer) ==
    pl_color_transfer_nominal_peak(transfer)

\* pl_color_space_infer: the peak inferred for an unset sig_peak
infer_sig_peak(transfer) ==
    IF transfer = PL_COLOR_TRC_HLG
    THEN <<10, 1>>
    ELSE pl_color_transfer_nominal_peak(transfer)

infer_primaries(space) ==
    IF space.primaries = 0
    THEN [space EXCEPT !.primaries = PL_COLOR_PRIM_BT_709] ELSE space

infer_transfer(space) ==
    IF space.transfer = 0
    THEN [space EXCEPT !.transfer = PL_COLOR_TRC_GAMMA22] ELSE space

infer_light(space) ==
    IF space.light = 0
    THEN [space EXCEPT !.light = IF space.transfer = PL_COLOR_TRC_HLG
                                 THEN PL_COLOR_LIGHT_SCENE_HLG
                                 ELSE PL_COLOR_LIGHT_DISPLAY]
    ELSE space

infer_peak(space) ==
    IF space.sig_peak = Zero
    THEN [space EXCEPT !.sig_peak = infer_sig_peak(space.transfer)] ELSE space

infer_scale(space) ==
    IF space.sig_scale = Zero
    THEN [space EXCEPT !.sig_scale = One] ELSE space

infer_avg(space) ==
    IF space.sig_avg = Zero
    THEN [space EXCEPT !.sig_avg = frac_div(sdr_avg, space.sig_scale)]
    ELSE space

\* pl_color_space_infer(&space): the value it leaves in *space
pl_color_space_infer(space) ==
    infer_avg(infer_scale(infer_peak(infer_light(infer_transfer(
        infer_primaries(space))))))

\* the signal levels of the study: the halves from 0 to MaxScalar
Scalars == {Frac(k, 2) : k \in 0..(2 * MaxScalar)}

Spaces ==
    [primaries : PL_COLOR_PRIM_UNKNOWN .. (PL_COLOR_PRIM_COUNT - 1),
     transfer  : PL_COLOR_TRC_UNKNOWN .. (PL_COLOR_TRC_COUNT - 1),
     light     : PL_COLOR_LIGHT_UNKNOWN .. (PL_COLOR_LIGHT_COUNT - 1),
     sig_peak  : Scalars, sig_avg : Scalars, sig_scale : Scalars]

\* orig: the space before the latest call; dest: the space
InitInfer ==
    /\ gpu = Gpu(TRUE, 450, 0, 256, TRUE)
    /\ InitDispatch
    /\ call = NULL
    /\ sh_vars = <<>>
    /\ placed = NULL
    /\ upd = NULL
    /\ rparams = NULL
    /\ \E space \in Spaces :
          color = <<[op |-> "none", orig |-> space, dest |-> space]>>

Infer ==
    /\ color' = <<[op   |-> "infer",
                   orig |-> color[1].dest,
                   dest |-> pl_color_space_infer(color[1].dest)]>>
    /\ UnchangedButColor

NextInfer == Infer

SpecInfer == InitInfer /\ [][NextInfer]_vars

-----------------------------------------------------------------------------
(* The classification study: the predicates and guesses of colorspace.c *)

MaxDelta == 2

\* constant-luminance BT.2020 counts as linear
pl_color_system_is_linear_2020c(sys) ==
    sys \in {PL_COLOR_SYSTEM_UNKNOWN, PL_COLOR_SYSTEM_RGB,
             PL_COLOR_SYSTEM_BT_601, PL_COLOR_SYSTEM_BT_709,
             PL_COLOR_SYSTEM_SMPTE_240M, PL_COLOR_SYSTEM_BT_2020_NC,
             PL_COLOR_SYSTEM_BT_2020_C, PL_COLOR_SYSTEM_YCGCO}

pl_color_system_is_linear(sys) ==
    CASE sys \in {PL_COLOR_SYSTEM_UNKNOWN, PL_COLOR_SYSTEM_RGB,
                  PL_COLOR_SYSTEM_BT_601, PL_COLOR_SYSTEM_BT_709,
                  PL_COLOR_SYSTEM_SMPTE_240M, PL_COLOR_SYSTEM_BT_2020_NC,
                  PL_COLOR_SYSTEM_YCGCO} -> TRUE
      [] sys \in {PL_COLOR_SYSTEM_BT_2020_C, PL_COLOR_SYSTEM_BT_2100_PQ,
                  PL_COLOR_SYSTEM_BT_2100_HLG, PL_COLOR_SYSTEM_XYZ} -> FALSE

\* the values the switch of either predicate returns for; for any other
\* value control reaches abort()
SwitchReturns(sys) ==
    sys \in {PL_COLOR_SYSTEM_UNKNOWN, PL_COLOR_SYSTEM_RGB,
             PL_COLOR_SYSTEM_XYZ, PL_COLOR_SYSTEM_BT_601,
             PL_COLOR_SYSTEM_BT_709, PL_COLOR_SYSTEM_SMPTE_240M,
             PL_COLOR_SYSTEM_BT_2020_NC, PL_COLOR_SYSTEM_BT_2020_C,
             PL_COLOR_SYSTEM_BT_2100_PQ, PL_COLOR_SYSTEM_BT_2100_HLG,
             PL_COLOR_SYSTEM_YCGCO}

pl_color_system_guess_ycbcr(width, height) ==
    IF width >= 1280 \/ height > 576
    THEN PL_COLOR_SYSTEM_BT_709
    ELSE PL_COLOR_SYSTEM_BT_601

\* PAL sized content counts as HD
pl_color_primaries_guess_pal_hd(width, height) ==
    IF width >= 1280 \/ height >= 576
    THEN PL_COLOR_PRIM_BT_709
    ELSE IF height \in {480, 486} THEN PL_COLOR_PRIM_BT_601_525
         ELSE PL_COLOR_PRIM_BT_709

pl_color_primaries_guess(width, height) ==
    IF width >= 1280 \/ height > 576
    THEN PL_COLOR_PRIM_BT_709
    ELSE CASE height = 576 -> PL_COLOR_PRIM_BT_601_625
           [] height \in {480, 486} -> PL_COLOR_PRIM_BT_601_525
           [] OTHER -> PL_COLOR_PRIM_BT_709

\* sizes around the usual video sizes
Near(S) == {s + d : s \in S, d \in (0 - MaxDelta)..MaxDelta}

Widths == Near({200, 720, 1024, 1280, 1920})

Heights == Near({200, 480, 486, 576, 720, 1080})

\* the arguments of the calls to come, and the value the latest call returned
InitClassify ==
    /\ gpu = Gpu(TRUE, 450, 0, 256, TRUE)
    /\ InitDispatch
    /\ call = NULL
    /\ sh_vars = <<>>
    /\ placed = NULL
    /\ upd = NULL
    /\ rparams = NULL
    /\ \E sys \in ColorSystems, width \in Widths, height \in Heights :
          color = <<[op |-> "none", sys |-> sys, width |-> width,
                     height |-> height, aborted |-> FALSE, ret |-> 0]>>

IsYcbcrLike ==
    /\ ~color[1].aborted
    /\ color' = <<[color[1] EXCEPT
                      !.op = "is_ycbcr_like",
                      !.aborted = ~SwitchReturns(color[1].sys),
                      !.ret = IF SwitchReturns(color[1].sys)
                              THEN pl_color_system_is_ycbcr_like(color[1].sys)
                              ELSE FALSE]>>
    /\ UnchangedButColor

IsLinear ==
    /\ ~color[1].aborted
    /\ color' = <<[color[1] EXCEPT
                      !.op = "is_linear",
                      !.aborted = ~SwitchReturns(color[1].sys),
                      !.ret = IF SwitchReturns(color[1].sys)
                              THEN pl_color_system_is_linear(color[1].sys)
                              ELSE FALSE]>>
    /\ UnchangedButColor

GuessYcbcr ==
    /\ ~color[1].aborted
    /\ color' = <<[color[1] EXCEPT
                      !.op = "guess_ycbcr",
                      !.ret = pl_color_system_guess_ycbcr(color[1].width,
                                                          color[1].height)]>>
    /\ UnchangedButColor

GuessPrimaries ==
    /\ ~color[1].aborted
    /\ color' = <<[color[1] EXCEPT
                      !.op = "primaries_guess",
                      !.ret = pl_color_primaries_guess(color[1].width,
                                                       color[1].height)]>>
    /\ UnchangedButColor

NextClassify == IsYcbcrLike \/ IsLinear \/ GuessYcbcr \/ GuessPrimaries

SpecClassify == InitClassify /\ [][NextClassify]_vars

-----------------------------------------------------------------------------
(* The call study: pl_dispatch_finish and pl_dispatch_compute step by step *)

\* dp->tmp after talloc_zero and after the reset at the error label
NoTmp == [TMP_PRELUDE |-> <<>>, TMP_MAIN |-> <<>>, TMP_VERT_HEAD |-> <<>>,
          TMP_VERT_BODY |-> <<>>]

\* the reset of dp->tmp at the error label is missing
reset_tmp_never(tmp) == tmp

\* for (i < PL_ARRAY_SIZE(dp->tmp)) dp->tmp[i].len = 0
reset_tmp(tmp) == [b \in DOMAIN tmp |-> <<>>]

\* generate_shaders: every ADD appends to a buffer of dp->tmp; the text of
\* the shader is named by its signature
generate_prelude(tmp) ==
    [tmp EXCEPT !.TMP_PRELUDE = @ \o <<"#version">>]

generate_vertex(tmp) ==
    [tmp EXCEPT !.TMP_VERT_BODY = @ \o <<"main">>,
                !.TMP_VERT_HEAD = @ \o tmp.TMP_PRELUDE
                                    \o (tmp.TMP_VERT_BODY \o <<"main">>)]

generate_main(tmp, fsh) ==
    [tmp EXCEPT !.TMP_MAIN = @ \o tmp.TMP_PRELUDE \o <<fsh.signature>>]

generate_shaders(tmp, fsh) ==
    IF fsh.is_compute
    THEN generate_main(generate_prelude(tmp), fsh)
    ELSE generate_vertex(generate_main(generate_prelude(tmp), fsh))

\* no call in progress
Idle == [pc |-> "idle", op |-> "none", h |-> 0, a |-> NULL, fsh |-> NULL,
         idx |-> 0, ret |-> FALSE, events |-> <<>>, glsl_shader |-> NULL,
         vertex_shader |-> NULL, res |-> NULL, asserts |-> NULL]

\* the emulation leaves the output signature as it found it
translated_output_kept(sh) == sh.output

\* the last statement of translate_compute_shader
translated_output(sh) == PL_SHADER_SIG_NONE

\* sh->res and vert_pos as pl_dispatch_finish hands them to find_pass, with
\* the outcome of the two assertions of translate_compute_shader
finish_res(a) ==
    IF pl_shader_is_compute(a.sh)
    THEN [input |-> a.sh.input, output |-> translated_output(a.sh),
          vert_pos |-> NULL,
          translate |-> <<[storable |-> a.target.storable,
                           output_color |-> a.sh.output = PL_SHADER_SIG_COLOR]>>]
    ELSE [input |-> a.sh.input, output |-> a.sh.output,
          vert_pos |-> <<"position">>, translate |-> NULL]

\* sh->res as pl_dispatch_compute hands it to find_pass, with no vert_pos
compute_res(a) ==
    [input |-> a.sh.input, output |-> a.sh.output, vert_pos |-> NULL,
     translate |-> NULL]

\* the outcome of the assertions of generate_shaders
generate_asserts(fsh, res) ==
    [vert_pos |-> fsh.is_compute \/ res.vert_pos # NULL,
     input    |-> res.input = PL_SHADER_SIG_NONE,
     output   |-> res.output = (IF fsh.is_compute THEN PL_SHADER_SIG_NONE
                                ELSE PL_SHADER_SIG_COLOR)]

AssertsHold(as) == as.vert_pos /\ as.input /\ as.output

StepFinishCalls ==
    {FinishArgs(GoodSh(b, PL_SHADER_SIG_COLOR), Tex("rgba8", 2, TRUE, TRUE),
                <<2, 2>>, bl) :
        b \in {"R1", "K1"},
        bl \in {NULL, <<"SRC_ALPHA", "ONE_MINUS_SRC_ALPHA", "ONE", "ZERO">>}}
    \cup
    {FinishArgs(Sh("R1", TRUE, TRUE, PL_SHADER_SIG_NONE, PL_SHADER_SIG_COLOR,
                   <<0, 0>>), Tex("rgba8", 2, TRUE, TRUE), <<2, 2>>, NULL),
     FinishArgs(GoodSh("K1", PL_SHADER_SIG_COLOR),
                Tex("rgba8", 2, TRUE, FALSE), <<2, 2>>, NULL),
     FinishArgs(Sh("K1", FALSE, TRUE, PL_SHADER_SIG_COLOR, PL_SHADER_SIG_COLOR,
                   <<0, 0>>), Tex("rgba8", 2, TRUE, TRUE), <<2, 2>>, NULL),
     FinishArgs(GoodSh("R1", PL_SHADER_SIG_NONE),
                Tex("rgba8", 2, TRUE, TRUE), <<2, 2>>, NULL)}

StepComputeCalls ==
    {[sh |-> sh] : sh \in {GoodSh("K1", PL_SHADER_SIG_NONE),
                           GoodSh("R1", PL_SHADER_SIG_NONE),
                           GoodSh("K1", PL_SHADER_SIG_COLOR)}}

InitCall ==
    /\ gpu \in Devices
    /\ InitDispatch
    /\ sh_vars = <<>>
    /\ placed = NULL
    /\ upd = NULL
    /\ rparams = NULL
    /\ color = NULL
    /\ call = <<[Idle EXCEPT !.h = 0], NoTmp>>

UnchangedByCall ==
    UNCHANGED <<gpu, num_alloc, current_ident, current_index, last, sh_vars,
                placed, idents, dp, destroyed, upd, pure>>

\* the head of pl_dispatch_finish: the checks and the translation
EnterFinish(h, a) ==
    /\ ~crashed /\ call[1].pc = "idle" /\ h \in handles
    /\ call' = <<[Idle EXCEPT
                     !.op = "finish", !.h = h, !.a = <<a>>,
                     !.pc = IF finish_checks(a) THEN "find_pass" ELSE "error",
                     !.fsh = IF ~finish_checks(a) THEN NULL
                             ELSE IF pl_shader_is_compute(a.sh)
                             THEN <<translate_compute_shader(a.sh, a.blend)>>
                             ELSE <<position_shader(a.sh)>>,
                     !.res = IF finish_checks(a) THEN <<finish_res(a)>>
                             ELSE NULL],
                 call[2]>>
    /\ UNCHANGED <<shaders, handles, passes, crashed>>
    /\ UnchangedByCall

\* the head of pl_dispatch_compute
EnterCompute(h, a) ==
    /\ ~crashed /\ call[1].pc = "idle" /\ h \in handles
    /\ call' = <<[Idle EXCEPT
                     !.op = "compute", !.h = h, !.a = <<a>>,
                     !.pc = IF compute_checks(a) THEN "find_pass" ELSE "error",
                     !.fsh = IF ~compute_checks(a) THEN NULL
                             ELSE <<plain_shader(a.sh)>>,
                     !.res = IF compute_checks(a) THEN <<compute_res(a)>>
                             ELSE NULL],
                 call[2]>>
    /\ UNCHANGED <<shaders, handles, passes, crashed>>
    /\ UnchangedByCall

StepTarget == IF call[1].op = "finish"
    THEN call[1].a[1].target.format ELSE "NULL"

StepBlend == IF call[1].op = "finish" THEN call[1].a[1].blend ELSE NULL

\* a failed pl_assert of generate_shaders ends the process
step_assert_failed ==
    /\ crashed' = TRUE
    /\ call' = <<[call[1] EXCEPT
                     !.pc = "crashed",
                     !.events = @ \o <<"lookup", "assert">>,
                     !.asserts = <<generate_asserts(call[1].fsh[1],
                                                    call[1].res[1])>>],
                 call[2]>>
    /\ UNCHANGED passes

\* the cache miss of find_pass for the pass np it builds
step_compile(np) ==
    /\ passes' = Append(passes, np.pass)
    /\ UNCHANGED crashed
    /\ call' = <<[call[1] EXCEPT
                     !.pc = "found", !.idx = Len(passes) + 1,
                     !.events = @ \o <<"lookup", "compile">>,
                     !.asserts =
                         IF np.pass_create
                         THEN <<generate_asserts(call[1].fsh[1], call[1].res[1])>>
                         ELSE NULL,
                     !.glsl_shader =
                         IF np.pass_create
                         THEN <<generate_shaders(call[2], call[1].fsh[1]).TMP_MAIN>>
                         ELSE NULL,
                     !.vertex_shader =
                         IF np.pass_create /\ ~call[1].fsh[1].is_compute
                         THEN <<generate_shaders(call[2], call[1].fsh[1]).TMP_VERT_HEAD>>
                         ELSE NULL],
                 IF np.pass_create
                 THEN generate_shaders(call[2], call[1].fsh[1])
                 ELSE call[2]>>

\* find_pass, for the result idx of its lookup
step_find_pass(idx) ==
    \/ /\ idx = CRASH
       /\ crashed' = TRUE
       /\ call' = <<[call[1] EXCEPT !.pc = "crashed",
                                    !.events = @ \o <<"lookup">>], call[2]>>
       /\ UNCHANGED passes
    \/ /\ idx > 0
       /\ call' = <<[call[1] EXCEPT !.pc = "found", !.idx = idx,
                                    !.events = @ \o <<"lookup">>], call[2]>>
       /\ UNCHANGED <<passes, crashed>>
    \/ /\ idx = 0
       /\ Len(passes) < MaxPasses
       /\ \E buf_ok \in BOOLEAN, pass_ok \in BOOLEAN :
             LET np == new_pass(gpu, call[1].fsh[1], StepTarget, StepBlend,
                                buf_ok, pass_ok)
             IN  IF np.pass_create
                    /\ ~AssertsHold(generate_asserts(call[1].fsh[1],
                                                     call[1].res[1]))
                 THEN step_assert_failed
                 ELSE step_compile(np)

FindPass ==
    /\ call[1].pc = "find_pass"
    /\ step_find_pass(lookup_pass(passes, 1, call[1].fsh[1], StepTarget,
                                  StepBlend))
    /\ UNCHANGED <<shaders, handles>>
    /\ UnchangedByCall

\* the failed flag is not looked at after find_pass
silent_return_never(failed) == "bind"

\* if (pass->failed) goto error
silent_return(failed) == IF failed THEN "error" ELSE "bind"

CheckFailed ==
    /\ call[1].pc = "found"
    /\ call' = <<[call[1] EXCEPT
                     !.pc = silent_return(passes[call[1].idx].failed)],
                 call[2]>>
    /\ UNCHANGED <<shaders, handles, passes, crashed>>
    /\ UnchangedByCall

\* the updates of the run parameters: descriptor bindings, variables, and in
\* pl_dispatch_finish the vertex data of a raster pass and the dispatch size
\* or scissors; in pl_dispatch_compute the dispatch size
BindRun ==
    /\ call[1].pc = "bind"
    /\ IF \E i \in DOMAIN passes[call[1].idx].vars :
             passes[call[1].idx].vars[i].type = PASS_VAR_NONE
       THEN \* case PASS_VAR_NONE: abort();
            /\ crashed' = TRUE
            /\ call' = <<[call[1] EXCEPT
                             !.pc = "crashed",
                             !.events = @ \o <<"descriptors", "abort">>],
                         call[2]>>
       ELSE /\ crashed' = crashed
            /\ call' = <<[call[1] EXCEPT
                             !.pc = "run",
                             !.events = @ \o <<"descriptors", "variables">>
                                          \o (IF call[1].op = "finish"
                                                 /\ ~call[1].fsh[1].is_compute
                                              THEN <<"vertices">> ELSE <<>>)
                                          \o <<"size">>], call[2]>>
    /\ UNCHANGED <<shaders, handles, passes>>
    /\ UnchangedByCall

\* pl_pass_run(dp->gpu, &pass->run_params); ret = true
PassRun ==
    /\ call[1].pc = "run"
    /\ call' = <<[call[1] EXCEPT !.pc = "error", !.ret = TRUE,
                                 !.events = @ \o <<"run">>], call[2]>>
    /\ UNCHANGED <<shaders, handles, passes, crashed>>
    /\ UnchangedByCall

\* the error label: the reset of dp->tmp, pl_dispatch_abort, return ret
ErrorLabel ==
    /\ call[1].pc = "error"
    /\ reclaim(call[1].h)
    /\ call' = <<[call[1] EXCEPT !.pc = "idle",
                                 !.events = @ \o <<"reclaim">>],
                 reset_tmp(call[2])>>
    /\ UNCHANGED <<passes, crashed>>
    /\ UnchangedByCall

NoCallRunning == call[1].pc = "idle"

CallBegin == NoCallRunning /\ MayBegin /\ pl_dispatch_begin

CallAbort == NoCallRunning /\ \E h \in handles : pl_dispatch_abort(h)

CallFinish == \E h \in handles, a \in StepFinishCalls : EnterFinish(h, a)

CallCompute == \E h \in handles, a \in StepComputeCalls : EnterCompute(h, a)

NextCall ==
    \/ CallBegin
    \/ CallAbort
    \/ CallFinish
    \/ CallCompute
    \/ FindPass
    \/ CheckFailed
    \/ BindRun
    \/ PassRun
    \/ ErrorLabel

SpecCall == InitCall /\ [][NextCall]_vars

-----------------------------------------------------------------------------
(* The vertex study: the vertex attributes of a raster pass *)

MaxAttribs == 3

\* texel sizes of vertex formats, from one byte to more than one vec4
TexelSizes == {1, 8, 16, 20}

\* sizeof(float[4])
va_loc_size == 16

\* the rounding up of the location count is missing
va_loc_count_floor(texel_size) == texel_size \div va_loc_size

\* the number of locations a vertex attribute consumes
va_loc_count(texel_size) == (texel_size + va_loc_size - 1) \div va_loc_size

\* the loop of find_pass over res->vertex_attribs from attribute i on; vas
\* are the attributes placed so far
RECURSIVE place_attribs(_, _, _, _, _)
place_attribs(attribs, i, vertex_stride, va_loc, vas) ==
    IF i > Len(attribs)
    THEN [vertex_attribs |-> vas, vertex_stride |-> vertex_stride]
    ELSE place_attribs(attribs, i + 1, vertex_stride + attribs[i],
                       va_loc + va_loc_count(attribs[i]),
                       Append(vas, [offset |-> vertex_stride,
                                    location |-> va_loc,
                                    texel_size |-> attribs[i]]))

\* memcpy of size bytes tagged v to address base of the vertex data; a byte
\* outside the allocation is reported
RECURSIVE memcpy(_, _, _, _)
memcpy(data, base, size, v) ==
    IF size = 0 THEN data
    ELSE memcpy(IF base < Len(data.bytes)
                THEN [data EXCEPT !.bytes[base + 1] = v]
                ELSE [data EXCEPT !.overflow = TRUE],
                base + 1, size - 1, v)

\* the raster shaders at pl_dispatch_finish: the attributes the fragments
\* asked for, then the vec2 "position"
VertexShaders == {s \o <<8>> : s \in SeqsUpTo(TexelSizes, MaxAttribs - 1)}

InitVertex ==
    /\ gpu = Gpu(TRUE, 450, 0, 256, TRUE)
    /\ InitDispatch
    /\ call = NULL
    /\ sh_vars = <<>>
    /\ placed = NULL
    /\ upd = NULL
    /\ \E attribs \in VertexShaders :
          rparams = <<[pc |-> "find_pass", attribs |-> attribs, params |-> NULL,
                       vertex_count |-> 0,
                       vertex_data |-> NULL, i |-> 0, n |-> 0]>>
    /\ color = NULL

\* find_pass on a miss: the attributes are placed and the placeholder of
\* vertex_count * vertex_stride zero bytes is allocated
PlaceAttribs ==
    /\ rparams[1].pc = "find_pass"
    /\ LET params == place_attribs(rparams[1].attribs, 1, 0, 0, <<>>)
       IN  rparams' = <<[rparams[1] EXCEPT
                           !.pc = "update", !.params = <<params>>,
                           !.vertex_count = 4,
                           !.vertex_data =
                               <<[bytes |-> [b \in 1..(4 * params.vertex_stride)
                                                |-> <<>>],
                                  overflow |-> FALSE]>>,
                           !.i = 1, !.n = 0]>>
    /\ UnchangedButGroups

\* one memcpy of the vertex data update of pl_dispatch_finish: corner n of
\* attribute i
WriteCorner ==
    /\ rparams[1].pc = "update"
    /\ rparams[1].i <= Len(rparams[1].attribs)
    /\ LET i  == rparams[1].i
           n  == rparams[1].n
           va == rparams[1].params[1].vertex_attribs[i]
           stride == rparams[1].params[1].vertex_stride
       IN  rparams' = <<[rparams[1] EXCEPT
                           !.vertex_data =
                               <<memcpy(rparams[1].vertex_data[1],
                                        va.offset + n * stride,
                                        rparams[1].attribs[i], <<i, n>>)>>,
                           !.n = IF n = 3 THEN 0 ELSE n + 1,
                           !.i = IF n = 3 THEN i + 1 ELSE i]>>
    /\ UnchangedButGroups

\* the loop is over
VertexDone ==
    /\ rparams[1].pc = "update"
    /\ rparams[1].i > Len(rparams[1].attribs)
    /\ rparams' = <<[rparams[1] EXCEPT !.pc = "run"]>>
    /\ UnchangedButGroups

NextVertex == PlaceAttribs \/ WriteCorner \/ VertexDone

SpecVertex == InitVertex /\ [][NextVertex]_vars

-----------------------------------------------------------------------------
(* The descriptor study: binding indices, the uniform buffer and the table
   of descriptor bindings *)

MaxDescs == 2

PL_DESC_SAMPLED_TEX == "SAMPLED_TEX"
PL_DESC_STORAGE_IMG == "STORAGE_IMG"
PL_DESC_BUF_UNIFORM == "BUF_UNIFORM"

DescTypes == {PL_DESC_SAMPLED_TEX, PL_DESC_STORAGE_IMG, PL_DESC_BUF_UNIFORM}

\* the namespaces of the two kinds of device: one namespace shared by all
\* descriptor types, or one namespace per type
pl_desc_namespace(kind, type) ==
    IF kind = "shared" THEN 0
    ELSE CASE type = PL_DESC_SAMPLED_TEX -> 0
           [] type = PL_DESC_STORAGE_IMG -> 1
           [] type = PL_DESC_BUF_UNIFORM -> 2

NamespaceKinds == {"shared", "per_type"}

\* int binding[PL_DESC_TYPE_COUNT] = {0}
NoBindings == [nsv \in 0..2 |-> 0]

\* the declaration index is taken as the binding
desc_binding_by_index(binding, nsv, i) == i - 1

\* binding[pl_desc_namespace(dp->gpu, desc->type)]
desc_binding(binding, nsv, i) == binding[nsv]

\* the loop that fills params.descriptors from descriptor i on
RECURSIVE assign_bindings(_, _, _, _, _)
assign_bindings(kind, descs, i, binding, out) ==
    IF i > Len(descs) THEN out
    ELSE LET nsv == pl_desc_namespace(kind, descs[i].type)
         IN  assign_bindings(kind, descs, i + 1,
                             [binding EXCEPT ![nsv] = @ + 1],
                             Append(out, [type |-> descs[i].type,
                                          binding |-> desc_binding(binding, nsv, i)]))

\* pass->ubo_desc once the buffer is attached
ubo_desc == [type |-> PL_DESC_BUF_UNIFORM, object |-> "ubo"]

\* find_pass from the placement of the variables (st) to pl_pass_create, for
\* a shader with the descriptors descs: the pass, and the shader as
\* find_pass leaves it. Slots of the table are 0-based as in the code.
compile_descs(kind, descs, st, buf_ok, pass_ok) ==
    LET need_ubo == st.ok /\ st.ubo_size # 0
        reached  == st.ok /\ (st.ubo_size # 0 => buf_ok)
        has_ubo  == need_ubo /\ buf_ok
        sh       == IF has_ubo THEN Append(descs, ubo_desc) ELSE descs
        num      == Len(sh)
    IN  [vars |-> st.vars,
         failed |-> ~(reached /\ pass_ok),
         reached |-> reached,
         ubo |-> IF has_ubo THEN <<"ubo">> ELSE NULL,
         ubo_index |-> IF has_ubo THEN Len(descs) ELSE 0 - 1,
         sh |-> IF reached THEN sh ELSE descs,
         descriptors |-> IF reached
                         THEN assign_bindings(kind, sh, 1, NoBindings, <<>>)
                         ELSE <<>>,
         desc_bindings |-> IF reached
                           THEN [s \in 0..(num - 1) |->
                                    IF has_ubo /\ s = Len(descs)
                                    THEN <<"ubo">> ELSE NULL]
                           ELSE <<>>,
         overflow |-> FALSE]

\* every slot of the table is refreshed from the shader; a slot the shader
\* has no descriptor for is cleared
bind_descs_clears(pass, sh) ==
    [pass EXCEPT !.desc_bindings =
        [s \in DOMAIN pass.desc_bindings |->
            IF s < Len(sh) THEN <<sh[s + 1].object>> ELSE NULL]]

\* for (i < sh->res.num_descriptors)
\*     rparams->desc_bindings[i].object = sh->res.descriptors[i].object;
\* a write outside the table is reported
bind_descs(pass, sh) ==
    [pass EXCEPT !.desc_bindings =
                    [s \in DOMAIN pass.desc_bindings |->
                        IF s < Len(sh) THEN <<sh[s + 1].object>>
                        ELSE pass.desc_bindings[s]],
                 !.overflow = \E i \in 0..(Len(sh) - 1) :
                                 i \notin DOMAIN pass.desc_bindings]

Objects == {"a", "b"}

DescVars == {ScalarSta, Mat4Sta}

\* a device with a uniform buffer, one with global uniforms only, and one
\* whose uniform buffer holds a vector but not a matrix
DescDevices == {Gpu(TRUE, 450, 0, 256, FALSE),
                Gpu(FALSE, 330, 0, 0, TRUE),
                Gpu(TRUE, 450, 0, 16, FALSE)}

WithObjects(types, objs) ==
    [i \in DOMAIN types |-> [type |-> types[i], object |-> objs[i]]]

InitDesc ==
    /\ gpu \in DescDevices
    /\ InitDispatch
    /\ call = NULL
    /\ sh_vars \in SeqsUpTo(DescVars, 2)
    /\ placed = NULL
    /\ upd = NULL
    /\ \E types \in SeqsUpTo(DescTypes, MaxDescs), kind \in NamespaceKinds :
          rparams = <<[pc |-> "find_pass", op |-> "none", kind |-> kind,
                       types |-> types,
                       sh |-> WithObjects(types, [i \in DOMAIN types |-> "a"]),
                       pass |-> NULL]>>
    /\ color = NULL

\* the miss: find_pass builds the pass
CompileDescs ==
    /\ rparams[1].pc = "find_pass"
    /\ \E buf_ok \in BOOLEAN, pass_ok \in BOOLEAN :
          LET p == compile_descs(rparams[1].kind, rparams[1].sh,
                                 place_vars(gpu, sh_vars), buf_ok, pass_ok)
          IN  rparams' = <<[rparams[1] EXCEPT
                              !.pc = IF p.failed THEN "error" ELSE "bind",
                              !.op = "miss", !.sh = p.sh, !.pass = <<p>>]>>
    /\ UnchangedButGroups

\* the descriptor loop of pl_dispatch_finish and pl_dispatch_compute
BindDescs ==
    /\ rparams[1].pc = "bind"
    /\ rparams' = <<[rparams[1] EXCEPT
                        !.pc = "run",
                        !.pass = <<bind_descs(rparams[1].pass[1],
                                              rparams[1].sh)>>]>>
    /\ UnchangedButGroups

\* a later dispatch finds the pass: its shader has the descriptors of the
\* signature, with objects of its own
HitDescs ==
    /\ rparams[1].pc = "run"
    /\ \E objs \in [DOMAIN rparams[1].types -> Objects] :
          rparams' = <<[rparams[1] EXCEPT
                           !.pc = "bind", !.op = "hit",
                           !.sh = WithObjects(rparams[1].types, objs)]>>
    /\ UnchangedButGroups

NextDesc == CompileDescs \/ BindDescs \/ HitDescs

SpecDesc == InitDesc /\ [][NextDesc]_vars

-----------------------------------------------------------------------------
(* Vocabulary of the properties *)

Dispatches == {"finish", "compute"}

\* The step is a call of pl_dispatch_finish or pl_dispatch_compute: last'
\* describes a dispatch of a shader the caller holds before the step, and
\* the step either took the shader from the caller or stopped the process
\* (no other operation does either while leaving a dispatch in last').
DispatchStep ==
    /\ last'.op \in Dispatches
    /\ last'.sh \in handles
    /\ last'.sh \notin handles' \/ crashed' # crashed

\* the shader, target format and blend find_pass is called with
CallShader(l) ==
    IF l.op = "compute" THEN plain_shader(l.args[1].sh)
    ELSE IF pl_shader_is_compute(l.args[1].sh)
    THEN translate_compute_shader(l.args[1].sh, l.args[1].blend)
    ELSE position_shader(l.args[1].sh)

CallSignature(l) == pl_shader_signature(CallShader(l))

CallFormat(l) == IF l.op = "compute" THEN "NULL" ELSE l.args[1].target.format

CallBlend(l) == IF l.op = "compute" THEN NULL ELSE l.args[1].blend

ChecksPass(l) ==
    IF l.op = "compute" THEN compute_checks(l.args[1]) ELSE finish_checks(l.args[1])

SameKey(l1, l2) ==
    /\ CallSignature(l1) = CallSignature(l2)
    /\ CallFormat(l1) = CallFormat(l2)
    /\ CallBlend(l1) = CallBlend(l2)

\* the call returned false and touched neither the cache nor the device
NothingDone(l) ==
    /\ l.returned /\ ~l.ret
    /\ ~l.created /\ ~l.buf_create /\ ~l.pass_create /\ ~l.ran

-----------------------------------------------------------------------------
(* C1 *)

\* C1: every call of pl_dispatch_finish or pl_dispatch_compute ends with
\* the shader appended to the idle pool and the caller's handle cleared.
C1_AlwaysReclaimed ==
    [][DispatchStep =>
          /\ last'.returned
          /\ shaders' = Append(shaders, last'.sh)
          /\ last'.sh \notin handles']_vars

-----------------------------------------------------------------------------
(* C2 *)

\* no two cached passes were compiled for the same signature, target format
\* and blend parameters
NoDuplicateKeys ==
    \A i \in 1..Len(passes), j \in 1..Len(passes) :
        i < j => ~(/\ passes[i].signature = passes[j].signature
                   /\ passes[i].requested.format = passes[j].requested.format
                   /\ passes[i].requested.blend = passes[j].requested.blend)

\* the second of two dispatches is a cache hit that compiles nothing
SecondIsHit ==
    /\ last'.returned
    /\ ~last'.created /\ ~last'.pass_create /\ ~last'.buf_create
    /\ passes' = passes
    /\ last'.idx = last.idx

\* C2 as claimed: two dispatches with the same signature, target format
\* and blend, one directly after the other, create one pass, the second
\* being a cache hit, and both return success; and the cache never holds
\* two passes with the same key.
C2_TwiceOnePassBothSucceed ==
    /\ [][(DispatchStep /\ last.op \in Dispatches /\ SameKey(last, last')) =>
             (SecondIsHit /\ last.ret /\ last'.ret)]_vars
    /\ []NoDuplicateKeys

\* C2 as amended: when the first dispatch returned success and the second
\* passes the usage checks, the second is a cache hit on the same pass that
\* compiles nothing and returns success; and the cache never holds two
\* passes with the same key.
C2_TwiceOnePass ==
    /\ [][(/\ DispatchStep /\ last.op \in Dispatches /\ SameKey(last, last')
           /\ last.ret /\ ChecksPass(last')) =>
             (SecondIsHit /\ last'.ret)]_vars
    /\ []NoDuplicateKeys

\* a raster dispatch with blending was served from a full cache
C2_Witness ==
    /\ last.op = "finish" /\ last.ret /\ ~last.created /\ last.idx > 0
    /\ ~pl_shader_is_compute(last.args[1].sh)
    /\ last.args[1].blend # NULL
    /\ Len(passes) = 2

-----------------------------------------------------------------------------
(* C3 *)

\* C3: once a pass that failed to compile is cached, every later dispatch
\* of a shader with its signature completes, returns false, leaves the
\* cache as it is, compiles nothing and executes nothing.
C3_FailedPassFailsFast ==
    [][(/\ DispatchStep
        /\ \E i \in 1..Len(passes) :
              passes[i].failed /\ passes[i].signature = CallSignature(last')) =>
          (NothingDone(last') /\ passes' = passes)]_vars

-----------------------------------------------------------------------------
(* C4 *)

\* the cached passes the claim lets a call reuse
Reusable(l) ==
    {i \in 1..Len(passes) :
        /\ passes[i].signature = CallSignature(l)
        /\ \/ CallShader(l).is_compute
           \/ /\ passes[i].requested.format = CallFormat(l)
              /\ passes[i].requested.blend = CallBlend(l)}

\* C4: the lookup reuses a pass exactly when the claim's key matches (the
\* signature for a compute shader; signature, target format and blend by
\* value for a raster shader) and otherwise appends a new pass.
C4_LookupByKey ==
    [][(DispatchStep /\ ChecksPass(last')) =>
          /\ last'.returned
          /\ IF Reusable(last') # {}
             THEN ~last'.created /\ last'.idx \in Reusable(last') /\ passes' = passes
             ELSE /\ last'.created
                  /\ Len(passes') = Len(passes) + 1
                  /\ SubSeq(passes', 1, Len(passes)) = passes
                  /\ passes'[Len(passes')].signature = CallSignature(last')]_vars

-----------------------------------------------------------------------------
(* C5 *)

\* the usage errors of the two entry points, as the claim lists them
UsageFault(l) ==
    LET sh == l.args[1].sh
    IN  \/ sh.failed
        \/ ~sh.mutable
        \/ sh.input # PL_SHADER_SIG_NONE
        \/ /\ l.op = "finish"
           /\ \/ sh.output # PL_SHADER_SIG_COLOR
              \/ l.args[1].target.dims # 2
              \/ ~l.args[1].target.renderable
              \/ Bodies[sh.body].is_compute /\ ~l.args[1].target.storable
              \/ /\ sh.output_size[1] # 0 /\ sh.output_size[2] # 0
                 /\ sh.output_size # l.args[1].rc
        \/ /\ l.op = "compute"
           /\ \/ sh.output # PL_SHADER_SIG_NONE
              \/ ~Bodies[sh.body].is_compute
              \/ Bodies[sh.body].num_vertex_attribs # 0

\* C5: a dispatch that fails a usage check returns false, leaves the pass
\* cache unchanged, creates no uniform buffer or pass and executes nothing.
C5_UsageErrorDoesNothing ==
    [][(DispatchStep /\ UsageFault(last')) =>
          (NothingDone(last') /\ passes' = passes /\ ~crashed')]_vars

\* a compute shader was rejected for its non-storable target while the
\* cache held a pass
C5_Witness ==
    /\ last.op = "finish" /\ UsageFault(last) /\ last.returned
    /\ pl_shader_is_compute(last.args[1].sh)
    /\ ~last.args[1].target.storable
    /\ Len(passes) > 0

-----------------------------------------------------------------------------
(* C6 *)

\* C6: when add_pass_var finds no binding method for a variable, find_pass
\* creates neither a uniform buffer nor a pass, caches the pass as failed
\* with some variable unplaced, and the dispatch returns false.
C6_PlacementFailure ==
    [][(DispatchStep /\ last'.place_failed) =>
          /\ last'.returned /\ ~last'.ret /\ ~last'.ran
          /\ last'.created /\ ~last'.buf_create /\ ~last'.pass_create
          /\ passes' = Append(passes, passes'[Len(passes')])
          /\ passes'[Len(passes')].failed
          /\ passes'[Len(passes')].pass = NULL
          /\ passes'[Len(passes')].ubo = NULL
          /\ \E i \in 1..Len(passes'[Len(passes')].vars) :
                passes'[Len(passes')].vars[i].type = PASS_VAR_NONE]_vars

\* the matrix of R1 found no place after its scalar went to push constants
C6_Witness ==
    /\ last.op = "finish" /\ last.place_failed /\ last.created
    /\ Len(passes) > 0
    /\ passes[Len(passes)].failed
    /\ Len(passes[Len(passes)].vars) = 2
    /\ passes[Len(passes)].vars[1].type = PASS_VAR_PUSHC
    /\ passes[Len(passes)].vars[2].type = PASS_VAR_NONE

-----------------------------------------------------------------------------
(* Vocabulary of the placement properties: placed[1] is what find_pass built
   for the variables sh_vars on the device gpu *)

Built == placed # NULL

PassVars == placed[1].pass.vars

TypeOf(i) == PassVars[i].type

PushcPlaced == {i \in 1..Len(sh_vars) : TypeOf(i) = PASS_VAR_PUSHC}

EndOf(i) == PassVars[i].layout.offset + PassVars[i].layout.size

-----------------------------------------------------------------------------
(* C7 *)

\* C7: in every pass find_pass builds, each push constant variable ends
\* within max_pushc_size, the byte ranges of two push constant variables do
\* not overlap, and the push_constants_size handed to pl_pass_create, a
\* multiple of 4, covers every range and does not exceed max_pushc_size.
C7_PushConstantsWithinBudget ==
    Built =>
        /\ \A i \in PushcPlaced : EndOf(i) <= gpu.max_pushc_size
        /\ \A i \in PushcPlaced, j \in PushcPlaced :
              i # j => \/ EndOf(i) <= PassVars[j].layout.offset
                       \/ EndOf(j) <= PassVars[i].layout.offset
        /\ placed[1].create_pushc # NULL =>
              /\ placed[1].create_pushc[1] % 4 = 0
              /\ placed[1].create_pushc[1] <= gpu.max_pushc_size
              /\ \A i \in PushcPlaced : EndOf(i) <= placed[1].create_pushc[1]

\* a pass was created with two push constants, the second behind padding,
\* and a variable left out of them, on a limit that is no multiple of 4
C7_Witness ==
    /\ Built /\ placed[1].create_pushc # NULL
    /\ gpu.max_pushc_size % 4 # 0
    /\ \E i \in PushcPlaced, j \in PushcPlaced :
          EndOf(i) < PassVars[j].layout.offset
    /\ \E i \in 1..Len(sh_vars) : TypeOf(i) \in {PASS_VAR_UBO, PASS_VAR_GLOBAL}

-----------------------------------------------------------------------------
(* C8 *)

C8Shader == sh_vars \in {<<ScalarDyn, Mat4Sta>>, <<Mat4Sta, ScalarDyn>>}

\* the push constant limit holds the scalar and not the matrix
FitsOnlyScalar ==
    /\ pl_std430_layout(0, ScalarDyn).size <= gpu.max_pushc_size
    /\ pl_std430_layout(0, Mat4Sta).size > gpu.max_pushc_size

C8Placement ==
    /\ ~placed[1].place_failed
    /\ \A i \in 1..Len(sh_vars) :
          /\ sh_vars[i] = ScalarDyn => TypeOf(i) = PASS_VAR_PUSHC
          /\ sh_vars[i] = Mat4Sta => TypeOf(i) \in {PASS_VAR_UBO, PASS_VAR_GLOBAL}

\* C8 as claimed: a dynamic scalar and a static 4x4 matrix, in either
\* order, on a device whose push constant limit fits only the scalar: the
\* scalar is a push constant, the matrix is in the uniform buffer or a
\* global uniform, and placement does not fail.
C8_ScalarPushcMatrixElsewhere ==
    (Built /\ C8Shader /\ FitsOnlyScalar) => C8Placement

\* the device can hold the matrix outside push constants
MatrixHasFallback ==
    \/ gpu.input_variables
    \/ /\ gpu.version >= UBO_GLSL_VERSION
       /\ pl_std140_layout(0, Mat4Sta).size <= gpu.max_ubo_size

\* C8 as amended: the same, on a device with Vulkan-flavoured GLSL that
\* has global input variables or a uniform buffer (GLSL >= 440) large
\* enough for the matrix.
C8_ScalarPushcMatrixElsewhereOnCapableDevice ==
    (Built /\ C8Shader /\ FitsOnlyScalar /\ gpu.vulkan /\ MatrixHasFallback)
        => C8Placement

\* the matrix, declared first, went to the uniform buffer and the scalar
\* behind it to push constants
C8_Witness ==
    /\ Built /\ sh_vars = <<Mat4Sta, ScalarDyn>>
    /\ FitsOnlyScalar /\ gpu.vulkan /\ MatrixHasFallback
    /\ TypeOf(1) = PASS_VAR_UBO /\ TypeOf(2) = PASS_VAR_PUSHC

-----------------------------------------------------------------------------
(* C9 *)

\* variable i comes to the greedy loop unplaced
GreedyReaches(i) ==
    /\ place_prefix(gpu, sh_vars, i - 1).ok
    /\ place_prefix(gpu, sh_vars, i - 1).vars[i].type = PASS_VAR_NONE

\* its layout behind the push constants placed so far fits the limit
GreedyFits(i) ==
    pl_std430_layout(place_prefix(gpu, sh_vars, i - 1).push_constants_size,
                     sh_vars[i]).offset
    + pl_std430_layout(place_prefix(gpu, sh_vars, i - 1).push_constants_size,
                       sh_vars[i]).size
        <= gpu.max_pushc_size

GreedyPrefersPushc(i) ==
    /\ GreedyFits(i) => TypeOf(i) = PASS_VAR_PUSHC
    /\ TypeOf(i) \in {PASS_VAR_UBO, PASS_VAR_GLOBAL} => ~GreedyFits(i)

\* C9 as claimed: in the greedy loop a variable not yet placed that fits
\* the remaining push constant budget of a device with a nonzero push
\* constant limit becomes a push constant; the uniform buffer or a global
\* uniform takes it only when it does not fit.
C9_GreedyPrefersPushc ==
    (Built /\ gpu.max_pushc_size # 0) =>
        \A i \in 1..Len(sh_vars) : GreedyReaches(i) => GreedyPrefersPushc(i)

\* C9 as amended: the same on a device whose GLSL is Vulkan-flavoured.
C9_GreedyPrefersPushcOnVulkan ==
    (Built /\ gpu.max_pushc_size # 0 /\ gpu.vulkan) =>
        \A i \in 1..Len(sh_vars) : GreedyReaches(i) => GreedyPrefersPushc(i)

\* the greedy loop made one static matrix a push constant and sent the
\* next, which no longer fit, elsewhere
C9_Witness ==
    /\ Built /\ gpu.max_pushc_size # 0 /\ gpu.vulkan
    /\ \E i \in 1..Len(sh_vars), j \in 1..Len(sh_vars) :
          /\ sh_vars[i] = Mat4Sta /\ GreedyReaches(i) /\ GreedyFits(i)
          /\ TypeOf(i) = PASS_VAR_PUSHC
          /\ GreedyReaches(j) /\ ~GreedyFits(j)
          /\ TypeOf(j) \in {PASS_VAR_UBO, PASS_VAR_GLOBAL}

-----------------------------------------------------------------------------
(* C10 *)

\* C10: on a device with global input variables a dynamic variable is
\* never placed in the uniform buffer: it is a push constant or a global
\* uniform.
C10_DynamicAvoidsUbo ==
    (Built /\ gpu.input_variables) =>
        \A i \in 1..Len(sh_vars) :
            sh_vars[i].dynamic => TypeOf(i) \in {PASS_VAR_PUSHC, PASS_VAR_GLOBAL}

\* on such a device a static variable went to the uniform buffer and a
\* dynamic one of the same shape became a global uniform
C10_Witness ==
    /\ Built /\ gpu.input_variables
    /\ \E i \in 1..Len(sh_vars), j \in 1..Len(sh_vars) :
          /\ sh_vars[i] = Mat4Sta /\ TypeOf(i) = PASS_VAR_UBO
          /\ sh_vars[j] = Mat4Dyn /\ TypeOf(j) = PASS_VAR_GLOBAL

\* what the claim allows without global input variables: a dynamic variable
\* in the uniform buffer
DynamicInUbo ==
    /\ Built /\ ~gpu.input_variables
    /\ \E i \in 1..Len(sh_vars) : sh_vars[i].dynamic /\ TypeOf(i) = PASS_VAR_UBO

-----------------------------------------------------------------------------
(* C11 *)

\* what the latest dispatch wrote for variable i, by path
GlobalWrites(st, i) ==
    {k \in 1..Len(st.var_updates) :
        /\ placed[1].pass.vars[i].type = PASS_VAR_GLOBAL
        /\ st.var_updates[k].index = placed[1].pass.vars[i].index}

UboWrites(st, i) == {k \in 1..Len(st.buf_writes) : st.buf_writes[k].var = i}

PushcWrites(st, i) == {k \in 1..Len(st.pushc_copies) : st.pushc_copies[k].var = i}

\* the rows of variable i in the uniform buffer, each written once
UboRowsOnce(st, i) ==
    /\ UboWrites(st, i) # {}
    /\ \A k \in UboWrites(st, i) : st.buf_writes[k].data = st.data[i]
    /\ \A k \in UboWrites(st, i), l \in UboWrites(st, i) :
          k # l => /\ st.buf_writes[k].offset # st.buf_writes[l].offset
                   /\ st.buf_writes[k].src # st.buf_writes[l].src
    /\ Cardinality(UboWrites(st, i)) * pl_var_host_layout(0, sh_vars[i]).stride
          = pl_var_host_layout(0, sh_vars[i]).size

WrittenOnce(st, i) ==
    LET t == placed[1].pass.vars[i].type
    IN  /\ Cardinality(GlobalWrites(st, i)) = (IF t = PASS_VAR_GLOBAL THEN 1 ELSE 0)
        /\ \A k \in GlobalWrites(st, i) : st.var_updates[k].data = st.data[i]
        /\ IF t = PASS_VAR_UBO THEN UboRowsOnce(st, i) ELSE UboWrites(st, i) = {}
        /\ Cardinality(PushcWrites(st, i)) = (IF t = PASS_VAR_PUSHC THEN 1 ELSE 0)
        /\ \A k \in PushcWrites(st, i) : st.pushc_copies[k].data = st.data[i]

NotWritten(st, i) ==
    GlobalWrites(st, i) = {} /\ UboWrites(st, i) = {} /\ PushcWrites(st, i) = {}

\* C11: in the Bind-Update of a dispatch a variable whose value equals the
\* value recorded at its previous update is not written at all; any other
\* variable is written exactly once through the path of its placement and
\* its value is recorded; the var-update list holds records of this
\* dispatch only.
C11_UpdateOnlyChanged ==
    [][/\ ~upd'[1].aborted
       /\ \A i \in 1..Len(sh_vars) :
             IF upd[1].cached_data[i] = <<upd'[1].data[i]>>
             THEN /\ NotWritten(upd'[1], i)
                  /\ upd'[1].cached_data[i] = upd[1].cached_data[i]
             ELSE /\ WrittenOnce(upd'[1], i)
                  /\ upd'[1].cached_data[i] = <<upd'[1].data[i]>>
       /\ \A k \in 1..Len(upd'[1].var_updates) :
             \E i \in 1..Len(sh_vars) :
                /\ k \in GlobalWrites(upd'[1], i)
                /\ upd[1].cached_data[i] # <<upd'[1].data[i]>>]_vars

\* the latest dispatch wrote the four rows of a matrix to the uniform buffer
\* and skipped a global uniform whose value was recorded before
C11_Witness ==
    /\ upd # NULL /\ Len(sh_vars) = 2
    /\ \E i \in 1..2, j \in 1..2 :
          /\ placed[1].pass.vars[i].type = PASS_VAR_UBO
          /\ Cardinality(UboWrites(upd[1], i)) = 4
          /\ placed[1].pass.vars[j].type = PASS_VAR_GLOBAL
          /\ upd[1].cached_data[j] = <<upd[1].data[j]>>
          /\ NotWritten(upd[1], j)

-----------------------------------------------------------------------------
(* C12 *)

RECURSIVE TimesIn(_, _)
\* how often the shader s is in the pool
TimesIn(pool, s) ==
    IF pool = <<>> THEN 0
    ELSE (IF Head(pool) = s THEN 1 ELSE 0) + TimesIn(Tail(pool), s)

\* every shader ever allocated is in the pool once or held by a caller,
\* never both, and nothing else is pooled or held
PoolOrHandle ==
    /\ \A s \in 1..num_alloc :
          TimesIn(shaders, s) + (IF s \in handles THEN 1 ELSE 0) = 1
    /\ handles \subseteq 1..num_alloc
    /\ \A k \in 1..Len(shaders) : shaders[k] \in 1..num_alloc

\* a begin call: a caller gets a handle
BeginStep == handles' # handles /\ handles \subseteq handles'

\* C12: while the dispatcher lives, every shader ever allocated is in the
\* idle pool exactly once or held by exactly one caller, never both; begin
\* allocates a shader only when the pool is empty and otherwise takes one
\* shader out of the pool; pl_dispatch_abort on a NULL handle changes
\* nothing.
C12_ShadersPooledOrHeld ==
    /\ [](Live => PoolOrHandle)
    /\ [][BeginStep =>
            IF shaders = <<>>
            THEN /\ num_alloc' = num_alloc + 1 /\ shaders' = <<>>
                 /\ handles' = handles \cup {num_alloc'}
            ELSE /\ num_alloc' = num_alloc
                 /\ Len(shaders') = Len(shaders) - 1
                 /\ \E s \in handles' \ handles :
                       /\ handles' = handles \cup {s}
                       /\ TimesIn(shaders, s) = 1 /\ TimesIn(shaders', s) = 0]_vars
    /\ [][(last' # last /\ last'.op = "abort" /\ last'.sh = 0) =>
            UNCHANGED <<shaders, handles, num_alloc, passes, current_ident,
                        current_index, idents, dp, destroyed>>]_vars

\* two shaders were allocated; after a dispatch one is back in the pool
\* while a caller still holds the other
C12_Witness ==
    /\ Live /\ num_alloc = 2 /\ Len(shaders) = 1 /\ Cardinality(handles) = 1
    /\ last.op \in Dispatches /\ last.returned
    /\ shaders[1] = last.sh

-----------------------------------------------------------------------------
(* C13 *)

\* the cache keeps every pass it holds, unchanged and in its place
CacheGrows ==
    /\ Len(passes') >= Len(passes)
    /\ \A i \in 1..Len(passes) : passes'[i] = passes[i]

\* what pl_dispatch_destroy did with the dispatcher of the state before
AllDestroyed ==
    /\ dp' = NULL
    /\ Len(destroyed'[1].passes) = Len(passes)
    /\ \A i \in 1..Len(passes) :
          /\ destroyed'[1].passes[i].ubo = passes[i].ubo
          /\ destroyed'[1].passes[i].pass = passes[i].pass
    /\ destroyed'[1].shaders = shaders
    /\ passes' = <<>> /\ shaders' = <<>>

\* C13: no begin, reset_frame, finish, compute or abort call removes,
\* replaces or changes a cached pass; only pl_dispatch_destroy destroys
\* passes: it destroys every cached pass's uniform buffer and compiled
\* pass, frees every pooled shader and clears the caller's pointer, and on
\* a NULL dispatcher it does nothing.
C13_PassesLiveUntilDestroy ==
    /\ [][(Live /\ dp' # NULL) => (CacheGrows /\ destroyed' = NULL)]_vars
    /\ [][(Live /\ dp' = NULL) => AllDestroyed]_vars
    /\ [][~Live => UNCHANGED vars]_vars

\* a dispatcher was destroyed with a compiled pass owning a uniform buffer
\* and a failed pass in its cache, a shader in its pool and one held
C13_Witness ==
    /\ ~Live /\ destroyed # NULL
    /\ \E i \in 1..Len(destroyed[1].passes), j \in 1..Len(destroyed[1].passes) :
          /\ destroyed[1].passes[i].ubo # NULL
          /\ destroyed[1].passes[i].pass # NULL
          /\ destroyed[1].passes[j].pass = NULL
    /\ Len(destroyed[1].shaders) = 1
    /\ handles # {}

-----------------------------------------------------------------------------
(* C14 *)

\* the unique shaders of the current frame have pairwise distinct identifiers
DistinctIdents ==
    \A i \in 1..Len(idents), j \in 1..Len(idents) :
        i # j => idents[i] # idents[j]

\* C14: the shaders begun with pl_dispatch_begin_ex(dp, true) between two
\* pl_dispatch_reset_frame calls get pairwise distinct identifiers, however
\* many they are; pl_dispatch_reset_frame restarts the identifier counter
\* at 0 and advances the buffer index by one.
C14_UniqueIdents ==
    /\ []DistinctIdents
    /\ [][current_index' # current_index =>
            (current_ident' = 0 /\ current_index' = current_index + 1)]_vars

-----------------------------------------------------------------------------
(* C15 *)

\* a call of pl_dispatch_finish that no check but a target check can reject
OnlyTargetInQuestion(l) ==
    /\ l.op = "finish"
    /\ ~l.args[1].sh.failed /\ l.args[1].sh.mutable
    /\ l.args[1].sh.input = PL_SHADER_SIG_NONE
    /\ l.args[1].sh.output = PL_SHADER_SIG_COLOR
    /\ \/ l.args[1].sh.output_size[1] = 0 \/ l.args[1].sh.output_size[2] = 0
       \/ l.args[1].sh.output_size = l.args[1].rc

\* the call got past the checks, to find_pass
ReachedFindPass(l) == l.idx > 0 \/ ~l.returned

TargetOkAsClaimed(l) ==
    /\ l.args[1].target.dims = 2
    /\ IF Bodies[l.args[1].sh.body].is_compute
       THEN l.args[1].target.storable
       ELSE l.args[1].target.renderable

TargetOkRenderable(l) ==
    /\ l.args[1].target.dims = 2
    /\ l.args[1].target.renderable
    /\ Bodies[l.args[1].sh.body].is_compute => l.args[1].target.storable

\* C15 as claimed: pl_dispatch_finish passes its target check exactly when
\* the target is 2D and, for a raster shader, renderable or, for a compute
\* shader, storable.
C15_TargetCheck ==
    [][(DispatchStep /\ OnlyTargetInQuestion(last')) =>
          (ReachedFindPass(last') <=> TargetOkAsClaimed(last'))]_vars

\* C15 as amended: pl_dispatch_finish passes its target check exactly when
\* the target is 2D and renderable and, for a compute shader, also storable.
C15_TargetCheckRenderable ==
    [][(DispatchStep /\ OnlyTargetInQuestion(last')) =>
          (ReachedFindPass(last') <=> TargetOkRenderable(last'))]_vars

\* a compute shader was rejected for a 2D storable target that is not
\* renderable
C15_Witness ==
    /\ OnlyTargetInQuestion(last) /\ last.sh # 0
    /\ Bodies[last.args[1].sh.body].is_compute
    /\ last.args[1].target.dims = 2
    /\ last.args[1].target.storable /\ ~last.args[1].target.renderable
    /\ ~ReachedFindPass(last) /\ ~last.ret

-----------------------------------------------------------------------------
(* C16 *)

RunW == Abs(rparams[1].rc.x1 - rparams[1].rc.x0)
RunH == Abs(rparams[1].rc.y1 - rparams[1].rc.y0)

\* C16: a compute shader dispatched through pl_dispatch_finish onto a
\* rectangle of absolute width W and height H with group size (bw, bh) runs
\* with compute_groups = (ceil(W/bw), ceil(H/bh), 1), that is
\* groups_x*bw >= W > (groups_x-1)*bw and likewise for y, for flipped
\* rectangles too; pl_dispatch_compute copies the caller's three dispatch
\* sizes unchanged.
C16_ComputeGroups ==
    /\ rparams[1].op = "finish" =>
          /\ rparams[1].compute_groups[1] * rparams[1].compute_group_size[1] >= RunW
          /\ RunW > (rparams[1].compute_groups[1] - 1) * rparams[1].compute_group_size[1]
          /\ rparams[1].compute_groups[2] * rparams[1].compute_group_size[2] >= RunH
          /\ RunH > (rparams[1].compute_groups[2] - 1) * rparams[1].compute_group_size[2]
          /\ rparams[1].compute_groups[3] = 1
    /\ rparams[1].op = "compute" =>
          rparams[1].compute_groups = rparams[1].dispatch_size

\* a flipped rectangle whose width is no multiple of the group width ran
\* with the rounded up number of groups
C16_Witness ==
    /\ rparams[1].op = "finish"
    /\ rparams[1].rc.x1 < rparams[1].rc.x0
    /\ RunW % rparams[1].compute_group_size[1] # 0
    /\ rparams[1].compute_groups[1] = 2
    /\ rparams[1].compute_groups[2] = 0

-----------------------------------------------------------------------------
(* C17 *)

\* C17: after pl_color_repr_decode returns, for every supported color system
\* and every levels value of the input, the repr has sys = RGB, levels = PC,
\* bit_shift = 0 and sample_depth = color_depth, and its alpha mode and
\* color_depth are unchanged.
C17_DecodeLeavesRgbPc ==
    color[1].op = "decode" =>
        /\ color[1].repr.sys = PL_COLOR_SYSTEM_RGB
        /\ color[1].repr.levels = PL_COLOR_LEVELS_PC
        /\ color[1].repr.bits.bit_shift = 0
        /\ color[1].repr.bits.sample_depth = color[1].repr.bits.color_depth
        /\ color[1].repr.alpha = color[1].before.alpha
        /\ color[1].repr.bits.color_depth = color[1].before.bits.color_depth

\* a shifted limited range BT.2020 repr of unlike depths was decoded
C17_Witness ==
    /\ color[1].op = "decode"
    /\ color[1].before.sys = PL_COLOR_SYSTEM_BT_2020_NC
    /\ color[1].before.levels = PL_COLOR_LEVELS_TV
    /\ color[1].before.alpha = PL_ALPHA_PREMULTIPLIED
    /\ color[1].before.bits = [sample_depth |-> 16, color_depth |-> 10,
                               bit_shift |-> 2]
    /\ color[1].repr.levels = PL_COLOR_LEVELS_PC

-----------------------------------------------------------------------------
(* C18 *)

DepthOr8(d) == IF d = 0 THEN 8 ELSE d

GuessedTV(r) ==
    \/ r.levels = PL_COLOR_LEVELS_TV
    \/ /\ r.levels = PL_COLOR_LEVELS_UNKNOWN
       /\ r.sys \in PL_COLOR_SYSTEM_BT_601 .. PL_COLOR_SYSTEM_YCGCO

ClaimedScale(r) ==
    IF GuessedTV(r)
    THEN Frac(2 ^ DepthOr8(r.bits.sample_depth),
              2 ^ DepthOr8(r.bits.color_depth) * 2 ^ r.bits.bit_shift)
    ELSE Frac(2 ^ DepthOr8(r.bits.sample_depth) - 1,
              (2 ^ DepthOr8(r.bits.color_depth) - 1) * 2 ^ r.bits.bit_shift)

Normalized(sample, color_, shift) ==
    /\ color[1].op = "normalize"
    /\ color[1].before.bits = [sample_depth |-> sample, color_depth |-> color_,
                               bit_shift |-> shift]

\* C18: pl_color_repr_normalize returns (1 / 2^bit_shift) multiplied by
\* 2^sample / 2^color when the explicit or guessed levels are TV and by
\* (2^sample - 1) / (2^color - 1) when they are PC, where a zero sample_depth
\* or color_depth counts as 8 and unknown levels are guessed TV for
\* YCbCr-like systems and PC otherwise; TV 8-in-10 gives 4, TV 8-in-12 gives
\* 16, PC 10-in-16 gives 65535/1023 and XYZ 12-in-16 with shift 4 gives
\* 65535/(4095*16).
C18_NormalizeScale ==
    /\ color[1].op = "normalize" => color[1].ret = ClaimedScale(color[1].before)
    /\ (Normalized(10, 8, 0) /\ GuessedTV(color[1].before)) =>
          color[1].ret = <<4, 1>>
    /\ (Normalized(12, 8, 0) /\ GuessedTV(color[1].before)) =>
          color[1].ret = <<16, 1>>
    /\ (Normalized(16, 10, 0) /\ ~GuessedTV(color[1].before)) =>
          color[1].ret = Frac(65535, 1023)
    /\ (Normalized(16, 12, 4) /\ color[1].before.sys = PL_COLOR_SYSTEM_XYZ
            /\ color[1].before.levels = PL_COLOR_LEVELS_UNKNOWN) =>
          color[1].ret = Frac(65535, 4095 * 16)

\* a YCbCr repr of unknown levels and unset sample depth was normalized as
\* limited range 8 in 10 bits, shifted by one
C18_Witness ==
    /\ Normalized(0, 10, 1)
    /\ color[1].before.sys = PL_COLOR_SYSTEM_YCGCO
    /\ color[1].before.levels = PL_COLOR_LEVELS_UNKNOWN
    /\ color[1].ret = <<1, 8>>

-----------------------------------------------------------------------------
(* C19 *)

Collapsed(bits) == bits.bit_shift = 0 /\ bits.sample_depth = bits.color_depth

\* C19: pl_color_repr_normalize leaves the repr with bit_shift = 0 and
\* sample_depth = color_depth; called on a repr that already has
\* sample_depth = color_depth and bit_shift = 0 it returns exactly 1.0 and
\* leaves the bits unchanged, so a second call after any first call returns
\* 1.0 and changes nothing.
C19_NormalizeIdempotent ==
    /\ [](color[1].op = "normalize" =>
            /\ Collapsed(color[1].repr.bits)
            /\ Collapsed(color[1].before.bits) =>
                  /\ color[1].ret = One
                  /\ color[1].repr.bits = color[1].before.bits)
    /\ [][(color[1].op = "normalize" /\ color'[1].op = "normalize") =>
             /\ color'[1].ret = One
             /\ color'[1].repr = color[1].repr]_vars

\* a limited range repr whose depths agree was normalized: the call returned
\* 1 and changed nothing
C19_Witness ==
    /\ color[1].op = "normalize"
    /\ color[1].before.levels = PL_COLOR_LEVELS_TV
    /\ color[1].before.bits = [sample_depth |-> 10, color_depth |-> 10,
                               bit_shift |-> 0]
    /\ color[1].ret = One
    /\ color[1].repr = color[1].before

-----------------------------------------------------------------------------
(* C20 *)

\* the fields of a repr or of a color space, one by one
FieldsOf(kind, x) ==
    IF kind = "repr"
    THEN <<x.sys, x.levels, x.alpha, x.bits.sample_depth, x.bits.color_depth,
           x.bits.bit_shift>>
    ELSE <<x.primaries, x.transfer, x.light, x.sig_peak, x.sig_avg,
           x.sig_scale>>

Merged == color[1].op = "merge"

\* C20: pl_color_repr_merge and pl_color_space_merge change a field of the
\* destination only when that field is zero, setting it to the source's
\* value, and never change a field that is already set; hence merging any
\* value into an all-zero destination yields that value, and merging the
\* same source twice gives the same result as merging it once.
C20_MergeFillsUnset ==
    /\ [](Merged =>
            /\ \A i \in 1..6 :
                  FieldsOf(color[1].kind, color[1].dest)[i] =
                      IF FieldsOf(color[1].kind, color[1].orig)[i] = 0
                      THEN FieldsOf(color[1].kind, color[1].new)[i]
                      ELSE FieldsOf(color[1].kind, color[1].orig)[i]
            /\ (\A i \in 1..6 : FieldsOf(color[1].kind, color[1].orig)[i] = 0)
                  => color[1].dest = color[1].new)
    /\ [][(Merged /\ Merged') => color'[1].dest = color[1].dest]_vars

\* a repr with a set levels field and an unset color system was merged with
\* a source that sets both to other values
C20_Witness ==
    /\ Merged /\ color[1].kind = "repr"
    /\ color[1].orig.sys = 0 /\ color[1].orig.levels = 1
    /\ color[1].new.sys = 2 /\ color[1].new.levels = 2
    /\ color[1].orig.bits.color_depth = 1 /\ color[1].new.bits.color_depth = 0
    /\ color[1].dest.sys = 2 /\ color[1].dest.levels = 1
    /\ color[1].dest.bits.color_depth = 1

-----------------------------------------------------------------------------
(* C21 *)

Inferred == color[1].op = "infer"

\* the fields of a color space: an enum value v as <<v>>, a signal level as
\* its fraction
SpaceFields(x) ==
    <<<<x.primaries>>, <<x.transfer>>, <<x.light>>,
      x.sig_peak, x.sig_avg, x.sig_scale>>

Unset(v) == v = <<0>> \/ v = Zero

\* C21: pl_color_space_infer changes only fields that are zero: an all-zero
\* input becomes exactly primaries = BT.709, transfer = gamma 2.2, light =
\* display, peak = 1.0, avg = 0.25, scale = 1.0; with transfer HLG an unset
\* light becomes scene-referred HLG and an unset peak becomes 10.0; every
\* field that was non-zero keeps its value, no field is zero afterwards, and
\* calling infer a second time changes nothing.
C21_InferFillsUnset ==
    /\ [](Inferred =>
            /\ \A i \in 1..6 :
                  /\ ~Unset(SpaceFields(color[1].orig)[i]) =>
                        SpaceFields(color[1].dest)[i] =
                            SpaceFields(color[1].orig)[i]
                  /\ ~Unset(SpaceFields(color[1].dest)[i])
            /\ (\A i \in 1..6 : Unset(SpaceFields(color[1].orig)[i])) =>
                  color[1].dest =
                      [primaries |-> PL_COLOR_PRIM_BT_709,
                       transfer  |-> PL_COLOR_TRC_GAMMA22,
                       light     |-> PL_COLOR_LIGHT_DISPLAY,
                       sig_peak  |-> <<1, 1>>, sig_avg |-> <<1, 4>>,
                       sig_scale |-> <<1, 1>>]
            /\ color[1].orig.transfer = PL_COLOR_TRC_HLG =>
                  /\ color[1].orig.light = 0 =>
                        color[1].dest.light = PL_COLOR_LIGHT_SCENE_HLG
                  /\ color[1].orig.sig_peak = Zero =>
                        color[1].dest.sig_peak = <<10, 1>>)
    /\ [][(Inferred /\ Inferred') => color'[1].dest = color[1].dest]_vars

\* an HLG space with set primaries and scale and nothing else was inferred
C21_Witness ==
    /\ Inferred
    /\ color[1].orig = [primaries |-> PL_COLOR_PRIM_BT_2020,
                        transfer  |-> PL_COLOR_TRC_HLG,
                        light     |-> 0, sig_peak |-> Zero, sig_avg |-> Zero,
                        sig_scale |-> <<2, 1>>]
    /\ color[1].dest = [primaries |-> PL_COLOR_PRIM_BT_2020,
                        transfer  |-> PL_COLOR_TRC_HLG,
                        light     |-> PL_COLOR_LIGHT_SCENE_HLG,
                        sig_peak  |-> <<10, 1>>, sig_avg |-> <<1, 8>>,
                        sig_scale |-> <<2, 1>>]

-----------------------------------------------------------------------------
(* C22 *)

\* C22: for every color system value below PL_COLOR_SYSTEM_COUNT,
\* pl_color_system_is_ycbcr_like and pl_color_system_is_linear each return a
\* boolean without aborting; is_ycbcr_like is true exactly for the enum
\* range BT_601 .. YCGCO and false for UNKNOWN, RGB and XYZ; is_linear is
\* true exactly for UNKNOWN, RGB, BT_601, BT_709, SMPTE_240M, BT_2020_NC and
\* YCGCO.
C22_SystemPredicates ==
    /\ ~color[1].aborted
    /\ color[1].op = "is_ycbcr_like" =>
          /\ color[1].ret \in BOOLEAN
          /\ color[1].ret <=>
                color[1].sys \in PL_COLOR_SYSTEM_BT_601 .. PL_COLOR_SYSTEM_YCGCO
          /\ color[1].sys \in {PL_COLOR_SYSTEM_UNKNOWN, PL_COLOR_SYSTEM_RGB,
                               PL_COLOR_SYSTEM_XYZ} => ~color[1].ret
    /\ color[1].op = "is_linear" =>
          /\ color[1].ret \in BOOLEAN
          /\ color[1].ret <=>
                color[1].sys \in {PL_COLOR_SYSTEM_UNKNOWN, PL_COLOR_SYSTEM_RGB,
                                  PL_COLOR_SYSTEM_BT_601, PL_COLOR_SYSTEM_BT_709,
                                  PL_COLOR_SYSTEM_SMPTE_240M,
                                  PL_COLOR_SYSTEM_BT_2020_NC,
                                  PL_COLOR_SYSTEM_YCGCO}

\* the last system of the enum, XYZ, was found to be not linear
C22_Witness ==
    /\ color[1].op = "is_linear"
    /\ color[1].sys = PL_COLOR_SYSTEM_COUNT - 1
    /\ color[1].sys = PL_COLOR_SYSTEM_XYZ
    /\ color[1].ret = FALSE

-----------------------------------------------------------------------------
(* C23 *)

IsHD(w, h) == w >= 1280 \/ h > 576

\* C23 as claimed: width >= 1280 or height > 576 gives the BT.709 family;
\* otherwise height 576 gives BT.601 / 625-line primaries, height 480 or 486
\* gives BT.601 / 525-line primaries, and any other size gives the BT.709
\* default, from pl_color_system_guess_ycbcr and pl_color_primaries_guess
\* alike.
C23_GuessBoundaries ==
    /\ color[1].op = "guess_ycbcr" =>
          color[1].ret =
              IF IsHD(color[1].width, color[1].height)
              THEN PL_COLOR_SYSTEM_BT_709
              ELSE IF color[1].height \in {576, 480, 486}
                   THEN PL_COLOR_SYSTEM_BT_601
                   ELSE PL_COLOR_SYSTEM_BT_709
    /\ color[1].op = "primaries_guess" =>
          color[1].ret =
              IF IsHD(color[1].width, color[1].height)
              THEN PL_COLOR_PRIM_BT_709
              ELSE IF color[1].height = 576
                   THEN PL_COLOR_PRIM_BT_601_625
                   ELSE IF color[1].height \in {480, 486}
                        THEN PL_COLOR_PRIM_BT_601_525
                        ELSE PL_COLOR_PRIM_BT_709

\* C23 as amended: pl_color_system_guess_ycbcr gives BT.709 for width >= 1280
\* or height > 576 and BT.601 for every other size; pl_color_primaries_guess
\* gives BT.709 for width >= 1280 or height > 576, otherwise the 625-line
\* primaries for height 576, the 525-line primaries for height 480 or 486,
\* and BT.709 for any other height.
C23_GuessBoundariesSD ==
    /\ color[1].op = "guess_ycbcr" =>
          color[1].ret =
              IF IsHD(color[1].width, color[1].height)
              THEN PL_COLOR_SYSTEM_BT_709
              ELSE PL_COLOR_SYSTEM_BT_601
    /\ color[1].op = "primaries_guess" =>
          color[1].ret =
              IF IsHD(color[1].width, color[1].height)
              THEN PL_COLOR_PRIM_BT_709
              ELSE IF color[1].height = 576
                   THEN PL_COLOR_PRIM_BT_601_625
                   ELSE IF color[1].height \in {480, 486}
                        THEN PL_COLOR_PRIM_BT_601_525
                        ELSE PL_COLOR_PRIM_BT_709

\* the system of a 200x200 picture, a size none of the listed ones, was
\* guessed to be BT.601
C23_Witness ==
    /\ color[1].op = "guess_ycbcr"
    /\ color[1].width = 200 /\ color[1].height = 200
    /\ color[1].ret = PL_COLOR_SYSTEM_BT_601
-----------------------------------------------------------------------------
(* C24 *)

\* the steps of the call in progress or of the last call, in the order taken
Events == call[1].events

Has(e) == \E i \in DOMAIN Events : Events[i] = e

Count(e) == Cardinality({i \in DOMAIN Events : Events[i] = e})

Before(e, f) ==
    \A i \in DOMAIN Events, j \in DOMAIN Events :
        Events[i] = e /\ Events[j] = f => i < j

\* the call in progress has a raster pass with vertex data to update
RasterCall == call[1].op = "finish" /\ ~call[1].fsh[1].is_compute

\* C24: within one pl_dispatch_finish or pl_dispatch_compute call the steps
\* come in the order lookup (hit or compile), bind-update, execute, reclaim.
\* Pass execution happens at most once, only on a pass whose failed flag is
\* false and only after the descriptor, variable and vertex updates of the
\* call; the call returns true exactly when pass execution was invoked; and
\* the shader goes back to the pool after execution, never before: as long as
\* the call has not reached the end of its error label the handle is still
\* the caller's and not in the pool.
C24_CallOrder ==
    /\ Count("run") <= 1 /\ Count("reclaim") <= 1
    /\ Before("lookup", "compile") /\ Before("compile", "descriptors")
    /\ Before("lookup", "descriptors") /\ Before("descriptors", "run")
    /\ Before("variables", "run") /\ Before("vertices", "run")
    /\ Before("size", "run") /\ Before("run", "reclaim")
    /\ \A e \in {"lookup", "compile", "descriptors", "variables", "vertices",
                 "size"} : Before(e, "reclaim")
    /\ Has("run") =>
          /\ ~passes[call[1].idx].failed
          /\ Has("lookup") /\ Has("descriptors") /\ Has("variables")
          /\ RasterCall => Has("vertices")
    /\ call[1].ret <=> Has("run")
    /\ call[1].pc \in {"find_pass", "found", "bind", "run", "error", "crashed"} =>
          /\ ~Has("reclaim")
          /\ call[1].h \in handles
          /\ \A i \in DOMAIN shaders : shaders[i] # call[1].h
    /\ Has("reclaim") => call[1].pc = "idle"

\* a call compiled its pass, updated the bindings, ran the pass, reclaimed
\* the shader and returned true
C24_Witness ==
    /\ call[1].pc = "idle" /\ call[1].ret
    /\ Events = <<"lookup", "compile", "descriptors", "variables", "vertices",
                  "size", "run", "reclaim">>
-----------------------------------------------------------------------------
(* C29 *)

\* C29: the temporary text buffers of the dispatcher (prelude, main, vertex
\* head, vertex body) all have length 0 whenever no dispatch call is in
\* progress, because both entry points reset them at the error label that
\* every exit goes through; so the fragment and vertex program texts handed
\* to pl_pass_create on a cache miss are the prelude followed by the text of
\* the current shader, with nothing of an earlier dispatch in front.
C29_TmpEmptyWhenIdle ==
    /\ call[1].pc = "idle" => call[2] = NoTmp
    /\ call[1].glsl_shader # NULL =>
          call[1].glsl_shader[1] = <<"#version", call[1].fsh[1].signature>>
    /\ call[1].vertex_shader # NULL =>
          call[1].vertex_shader[1] = <<"#version", "main">>

\* the second program of the dispatcher was generated, after an earlier
\* dispatch had generated the first, and the call has returned
C29_Witness ==
    /\ call[1].pc = "idle"
    /\ Len(passes) = 2 /\ call[1].idx = 2
    /\ Has("compile") /\ call[1].glsl_shader # NULL
    /\ call[1].vertex_shader # NULL
-----------------------------------------------------------------------------
(* C25 *)

RECURSIVE SumTo(_, _)
SumTo(f, k) == IF k = 0 THEN 0 ELSE SumTo(f, k - 1) + f[k]

CeilDiv16(attribs) ==
    [k \in DOMAIN attribs |->
        IF attribs[k] % 16 = 0 THEN attribs[k] \div 16
        ELSE attribs[k] \div 16 + 1]

Disjoint(a, la, b, lb) == a + la <= b \/ b + lb <= a

\* the bytes of the vertex data that hold corner n of attribute i
BytesOf(i, n) ==
    {b \in DOMAIN rparams[1].vertex_data[1].bytes :
        rparams[1].vertex_data[1].bytes[b] = <<i, n>>}

\* corner n of attribute i has been written
Written(i, n) ==
    i < rparams[1].i \/ (i = rparams[1].i /\ n < rparams[1].n)

\* C25: for a raster pass, vertex attribute i lies at the byte offset that is
\* the sum of the texel sizes of the attributes before it and at the location
\* that is the sum of ceil(texel_size / 16) over the attributes before it,
\* and the vertex stride is the sum of all texel sizes; the byte ranges and
\* the location ranges of distinct attributes never overlap, the vertex
\* buffer holds exactly 4 * stride bytes, and every write of a corner value
\* (vertex n in 0..3, attribute i) stays inside the buffer: nothing is
\* written outside, and every corner written keeps all its bytes.
C25_VertexLayout ==
    rparams[1].pc # "find_pass" =>
        LET attribs == rparams[1].attribs
            vas     == rparams[1].params[1].vertex_attribs
            stride  == rparams[1].params[1].vertex_stride
        IN  /\ Len(vas) = Len(attribs)
            /\ \A i \in DOMAIN vas :
                  /\ vas[i].offset = SumTo(attribs, i - 1)
                  /\ vas[i].location = SumTo(CeilDiv16(attribs), i - 1)
            /\ stride = SumTo(attribs, Len(attribs))
            /\ \A i \in DOMAIN vas, j \in DOMAIN vas :
                  i # j =>
                     /\ Disjoint(vas[i].offset, attribs[i],
                                 vas[j].offset, attribs[j])
                     /\ Disjoint(vas[i].location, CeilDiv16(attribs)[i],
                                 vas[j].location, CeilDiv16(attribs)[j])
            /\ Len(rparams[1].vertex_data[1].bytes) = 4 * stride
            /\ ~rparams[1].vertex_data[1].overflow
            /\ \A i \in DOMAIN vas, n \in 0..3 :
                  Written(i, n) =>
                     BytesOf(i, n) = {vas[i].offset + n * stride + k :
                                         k \in 1..attribs[i]}

\* all four corners of three attributes, one of them wider than a vec4, were
\* written
C25_Witness ==
    /\ rparams[1].pc = "run"
    /\ rparams[1].attribs = <<20, 1, 8>>
    /\ BytesOf(3, 3) # {}
-----------------------------------------------------------------------------
(* C26 *)

\* the pass of the descriptor study got as far as the descriptor loop
DescsAssigned == rparams[1].pass # NULL /\ rparams[1].pass[1].reached

\* the descriptors before i that share the namespace of descriptor i
SameNamespaceBefore(ds, i) ==
    {j \in 1..(i - 1) :
        pl_desc_namespace(rparams[1].kind, ds[j].type)
            = pl_desc_namespace(rparams[1].kind, ds[i].type)}

InUbo(pass) == \E i \in DOMAIN pass.vars : pass.vars[i].type = PASS_VAR_UBO

-----------------------------------------------------------------------------
(* C30 *)

\* the Bind-Update of a dispatch has refreshed the table of the pass
AfterBind == rparams[1].pc = "run"

\* C30: for a pass that owns a uniform buffer, the slot of the uniform
\* buffer in the table of descriptor bindings holds the buffer of the pass
\* after every Bind-Update, on the dispatch that compiled the pass and on
\* every later hit, whose shader does not declare the uniform buffer; every
\* other slot holds the object of the current shader's descriptor with the
\* same index; and Bind-Update never writes a slot outside the table
\* allocated when the pass was compiled.
C30_UboSlotKept ==
    /\ rparams[1].pass # NULL => ~rparams[1].pass[1].overflow
    /\ AfterBind =>
          LET pass == rparams[1].pass[1]
              sh   == rparams[1].sh
          IN  /\ pass.ubo # NULL =>
                    /\ pass.ubo_index \in DOMAIN pass.desc_bindings
                    /\ pass.desc_bindings[pass.ubo_index] = pass.ubo
              /\ \A s \in DOMAIN pass.desc_bindings :
                    s # pass.ubo_index =>
                       /\ s < Len(sh)
                       /\ pass.desc_bindings[s] = <<sh[s + 1].object>>
              /\ rparams[1].op = "hit" => Len(sh) = Len(rparams[1].types)

\* a hit on a pass with a uniform buffer of its own: the shader brought two
\* other objects, and the slot after them still holds the buffer
C30_Witness ==
    /\ AfterBind /\ rparams[1].op = "hit"
    /\ rparams[1].pass[1].ubo # NULL
    /\ rparams[1].pass[1].desc_bindings =
          [s \in 0..2 |-> IF s = 2 THEN <<"ubo">> ELSE <<"b">>]
-----------------------------------------------------------------------------
(* C28 *)

\* what the device holds for variable i after the updates so far, by the
\* path of its placement: the value of its last var-update record, or the
\* values in every byte of its rows in the uniform buffer or in the push
\* constants; NULL where nothing was written
Held(st, i) ==
    LET pv == placed[1].pass.vars[i]
    IN  IF pv.type = PASS_VAR_GLOBAL
        THEN {p[2] : p \in {q \in st.mem.global : q[1] = pv.index}}
        ELSE IF pv.type = PASS_VAR_UBO
        THEN {p[2] : p \in {q \in st.mem.ubo :
                               q[1] \in row_bytes(pv.layout, sh_vars[i])}}
        ELSE {p[2] : p \in {q \in st.mem.pushc :
                               q[1] \in row_bytes(pv.layout, sh_vars[i])}}

\* every byte of the rows of variable i has been written
AllWritten(st, i) ==
    LET pv == placed[1].pass.vars[i]
    IN  IF pv.type = PASS_VAR_GLOBAL
        THEN \E q \in st.mem.global : q[1] = pv.index
        ELSE IF pv.type = PASS_VAR_UBO
        THEN \A a \in row_bytes(pv.layout, sh_vars[i]) :
                \E q \in st.mem.ubo : q[1] = a
        ELSE \A a \in row_bytes(pv.layout, sh_vars[i]) :
                \E q \in st.mem.pushc : q[1] = a

\* a dispatch has run the Bind-Update of the pass
Dispatched(st) == \A i \in 1..Len(sh_vars) : st.cached_data[i] # NULL

\* C28: memoised updates never leave a stale value. After the Bind-Update of
\* any dispatch on a pass that compiled, whatever values the earlier
\* dispatches had, what was last written for each variable through the path
\* of its placement (the push constant bytes, the contents of the uniform
\* buffer, or its last var-update record) is the value the current shader
\* holds for the variable.
C28_NoStaleValue ==
    Dispatched(upd[1]) =>
        \A i \in 1..Len(sh_vars) :
            /\ AllWritten(upd[1], i)
            /\ Held(upd[1], i) = {<<i, upd[1].data[i]>>}

\* the latest dispatch skipped the update of a variable in the uniform
\* buffer and wrote a new value to a push constant
C28_Witness ==
    /\ upd # NULL /\ Len(sh_vars) = 2 /\ Dispatched(upd[1])
    /\ \E i \in 1..2, j \in 1..2 :
          /\ placed[1].pass.vars[i].type = PASS_VAR_UBO
          /\ NotWritten(upd[1], i)
          /\ upd[1].data[i] = 1
          /\ placed[1].pass.vars[j].type = PASS_VAR_PUSHC
          /\ Cardinality(PushcWrites(upd[1], j)) = 1
-----------------------------------------------------------------------------
(* C27 *)

\* C27: every pass cached with failed = false has a binding method other
\* than none for each of its variables, so Bind-Update never reaches the
\* abort for an unplaced variable; and whenever pl_dispatch_finish or
\* pl_dispatch_compute gets to code generation the assertions hold: the input
\* signature is NONE, a raster pass has output COLOR and a position
\* attribute, a compute pass has output NONE, and the target handed to the
\* raster emulation is storable (and the output COLOR when the emulation
\* starts).
C27_AssertionsHold ==
    /\ \A p \in DOMAIN passes :
          ~passes[p].failed =>
             \A i \in DOMAIN passes[p].vars :
                passes[p].vars[i].type # PASS_VAR_NONE
    /\ ~Has("abort") /\ ~Has("assert")
    /\ call[1].asserts # NULL => AssertsHold(call[1].asserts[1])
    /\ (call[1].res # NULL /\ call[1].res[1].translate # NULL) =>
          /\ call[1].res[1].translate[1].storable
          /\ call[1].res[1].translate[1].output_color

\* pl_dispatch_finish emulated a compute shader on a storable target, the
\* code of its pass was generated and its variables were updated
C27_Witness ==
    /\ call[1].op = "finish" /\ call[1].fsh # NULL /\ call[1].fsh[1].is_compute
    /\ call[1].asserts # NULL
    /\ Has("compile") /\ Has("variables") /\ Has("run")

====
